---- MODULE Spec2Model ----
(***************************************************************************)
(* Model of the GenePattern MCP server: the process-wide Credential        *)
(* Provider (_auth_handler), its installation by qualified name            *)
(* (set_auth_handler), the request dispatcher (_make_request), the start   *)
(* of the server (server.py) and a few catalog entries that call the       *)
(* dispatcher.                                                             *)
(*                                                                         *)
(* Python values are records [t |-> type name, v |-> payload] so that      *)
(* None, the text "None", True and "" stay distinct values.  Text that the *)
(* program builds by concatenation (header values, messages) is a sequence *)
(* of fragments.                                                           *)
(***************************************************************************)
EXTENDS Integers, Sequences, FiniteSets, TLC

VARIABLES
    phase,          \* "boot": nothing loaded; "library": _shared imported directly; "serving": server.py reached mcp.run
    environ,        \* os.environ: GENEPATTERN_KEY and GENEPATTERN_URL (None when unset)
    unknown,        \* server.py: the arguments parse_known_args did not recognise
    GENEPATTERN_URL,\* _shared.GENEPATTERN_URL, read once when the module is loaded
    _auth_handler,  \* _shared._auth_handler, the active Credential Provider
    setResult,      \* outcome of the last set_auth_handler call
    pc,             \* position of the current _make_request call: "idle", "sent", "returned", "raised"
    call,           \* arguments of the current _make_request call
    sent,           \* the requests.request invocations made by the current call, in order
    response,       \* the response the current call received (NoResponse when none)
    error,          \* the message of the exception requests.request raised ("" when none)
    result,         \* the outcome of the current call: returned value or raised error
    tool,           \* the catalog entry that made the current call, with its arguments
    doc,            \* get_task_documentation: its position, resolved type, asset fetches and outcome
    tools,          \* the tools registered on the FastMCP instance, in registration order
    remote,         \* the chunked-upload requests the remote server has received, in order
    threads         \* the frames of the tool invocations that run concurrently

vars == <<phase, environ, unknown, GENEPATTERN_URL, _auth_handler, setResult,
          pc, call, sent, response, error, result, tool, doc, tools, remote, threads>>

----------------------------------------------------------------------------
(* Bounds *)

MaxArrayLen == 1        \* elements of an encoded JSON array
MaxPages == 2           \* pages of a PDF documentation asset
MaxUploadCalls == 2     \* chunked-upload calls made in one run

----------------------------------------------------------------------------
(* Python values *)

None == [t |-> "NoneType", v |-> "None"]
PyStr(s) == [t |-> "str", v |-> s]
PyTrue == [t |-> "bool", v |-> "True"]
PyFalse == [t |-> "bool", v |-> "False"]
PyInt(s) == [t |-> "int", v |-> s]

\* Variant: None formatted as the empty text
StrNoneEmpty(x) == IF x.t = "NoneType" THEN "" ELSE x.v

\* str(x), also the text f"{x}" puts into a formatted string
Str(x) == x.v

\* bool(x): the truth value Python gives a scalar
Truthy(x) ==
    CASE x.t = "NoneType" -> FALSE
      [] x.t = "bool" -> x.v = "True"
      [] x.t = "int" -> x.v # "0"
      [] x.t = "str" -> x.v # ""
      [] x.t = "dict" -> DOMAIN x.v # {}
      [] x.t \in {"bytes", "text", "list"} -> Len(x.v) # 0
      [] OTHER -> TRUE

\* `needle in hay` for text held as a sequence of fragments
Contains(hay, needle) ==
    \E i \in 1..(Len(hay) + 1) :
        /\ i + Len(needle) - 1 <= Len(hay)
        /\ SubSeq(hay, i, i + Len(needle) - 1) = needle

----------------------------------------------------------------------------
(* Credential Providers *)

DefaultUrl == "https://cloud.genepattern.org/gp"

\* The objects a qualified name can resolve to.  `sub`: issubclass(obj, AuthHandler);
\* `abstract`: get_api_key is not implemented; `ctor`: what calling the class does.
AuthHandler == [kind |-> "class", name |-> "AuthHandler", sub |-> TRUE, abstract |-> TRUE, ctor |-> "ok"]
EnvAuthHandler == [kind |-> "class", name |-> "EnvAuthHandler", sub |-> TRUE, abstract |-> FALSE, ctor |-> "ok"]
SessionAuthHandler == [kind |-> "class", name |-> "SessionAuthHandler", sub |-> TRUE, abstract |-> FALSE, ctor |-> "ok"]
PartialHandler == [kind |-> "class", name |-> "PartialHandler", sub |-> TRUE, abstract |-> TRUE, ctor |-> "ok"]
BrokenHandler == [kind |-> "class", name |-> "BrokenHandler", sub |-> TRUE, abstract |-> FALSE, ctor |-> "RuntimeError"]
PlainClass == [kind |-> "class", name |-> "PlainClass", sub |-> FALSE, abstract |-> FALSE, ctor |-> "ok"]
make_handler == [kind |-> "function", name |-> "make_handler", sub |-> FALSE, abstract |-> FALSE, ctor |-> "ok"]

\* An instance of a class
Instance(cls) == [cls |-> cls.name, provider |-> cls.sub /\ ~cls.abstract]
NoInstance == [cls |-> "", provider |-> FALSE]

\* Instantiating an abstract class raises TypeError; otherwise __init__ decides
Construct(handler_class) ==
    IF handler_class.abstract THEN [exc |-> "TypeError", inst |-> NoInstance]
    ELSE IF handler_class.ctor # "ok" THEN [exc |-> handler_class.ctor, inst |-> NoInstance]
    ELSE [exc |-> "", inst |-> Instance(handler_class)]

\* Session keys a custom provider hands out per call context (None: anonymous session)
Contexts == {"s1", "s2"}
SessionKey(context) == IF context = "s1" THEN PyStr("key-s1") ELSE None

\* Variant: the default provider keeps the key it read for the previous request
GetApiKeyCached(handler, context, env) ==
    CASE handler.cls = "EnvAuthHandler" ->
            IF sent # <<>> THEN PyStr(sent[1].headers["Authorization"][2])
            ELSE env.GENEPATTERN_KEY
      [] handler.cls = "SessionAuthHandler" -> SessionKey(context)
      [] OTHER -> None

\* _auth_handler.get_api_key(context)
GetApiKey(handler, context, env) ==
    CASE handler.cls = "EnvAuthHandler" -> env.GENEPATTERN_KEY
      [] handler.cls = "SessionAuthHandler" -> SessionKey(context)
      [] OTHER -> None

----------------------------------------------------------------------------
(* set_auth_handler: installation of a provider by qualified name *)

\* What importlib.import_module and getattr find in this process
SharedModule == <<"genepattern_mcp", "_shared">>
CustomModule == <<"my_auth">>
Importable == {SharedModule, CustomModule}

ModuleAttrs(module_path) ==
    IF module_path = SharedModule
    THEN [n \in {"AuthHandler", "EnvAuthHandler"} |->
            IF n = "AuthHandler" THEN AuthHandler ELSE EnvAuthHandler]
    ELSE [n \in {"SessionAuthHandler", "PartialHandler", "BrokenHandler", "PlainClass", "make_handler"} |->
            CASE n = "SessionAuthHandler" -> SessionAuthHandler
              [] n = "PartialHandler" -> PartialHandler
              [] n = "BrokenHandler" -> BrokenHandler
              [] n = "PlainClass" -> PlainClass
              [] OTHER -> make_handler]

\* The qualified names tried, as their dot-separated segments
ClassPaths ==
    { <<"SessionAuthHandler">>,
      <<"no_such_module", "Handler">>,
      <<"my_auth", "Missing">>,
      <<"my_auth", "make_handler">>,
      <<"my_auth", "PlainClass">>,
      <<"my_auth", "PartialHandler">>,
      <<"my_auth", "BrokenHandler">>,
      <<"my_auth", "SessionAuthHandler">>,
      <<"genepattern_mcp", "_shared", "AuthHandler">>,
      <<"genepattern_mcp", "_shared", "EnvAuthHandler">> }

\* class_path.rsplit('.', 1)
rsplit(class_path) ==
    IF Len(class_path) >= 2
    THEN << SubSeq(class_path, 1, Len(class_path) - 1), class_path[Len(class_path)] >>
    ELSE << class_path >>

\* Variant: the subclass check left out
IsSubclassUnchecked(handler_class) == TRUE

\* issubclass(handler_class, AuthHandler), for a class
IsSubclassOfAuthHandler(handler_class) == handler_class.sub

\* The body of the try block: the exception it ends with ("" for none) and the
\* instance built
TryInstall(class_path) ==
    LET parts == rsplit(class_path) IN
    IF Len(parts) # 2 THEN [exc |-> "ValueError", inst |-> NoInstance]
    ELSE LET module_path == parts[1]
             class_name == parts[2]
         IN  IF module_path \notin Importable THEN [exc |-> "ImportError", inst |-> NoInstance]
             ELSE IF class_name \notin DOMAIN ModuleAttrs(module_path)
                  THEN [exc |-> "AttributeError", inst |-> NoInstance]
             ELSE LET handler_class == ModuleAttrs(module_path)[class_name] IN
                  IF handler_class.kind # "class" THEN [exc |-> "TypeError", inst |-> NoInstance]
                  ELSE IF ~IsSubclassOfAuthHandler(handler_class)
                       THEN [exc |-> "TypeError", inst |-> NoInstance]
                  ELSE Construct(handler_class)

\* Variant: the except clause swallows what it catches
InstallErrorSwallowed(exc) ==
    IF exc \in {"ImportError", "AttributeError", "ValueError"} THEN "" ELSE exc

\* The except clause: the exception that leaves set_auth_handler ("" for none)
InstallError(exc) ==
    IF exc \in {"ImportError", "AttributeError", "ValueError"} THEN "ImportError" ELSE exc

NoSetResult == [class_path |-> <<>>, raised |-> ""]

\* Variant: the global assigned before the checks have passed
set_auth_handler_assigning_early(class_path) ==
    /\ phase # "boot"
    /\ LET r == TryInstall(class_path) IN
        /\ _auth_handler' = r.inst
        /\ setResult' = [class_path |-> class_path, raised |-> InstallError(r.exc)]
    /\ UNCHANGED <<phase, environ, unknown, GENEPATTERN_URL, pc, call, sent, response, error, result,
                   tool, doc, tools, remote, threads>>

set_auth_handler(class_path) ==
    /\ phase # "boot"
    /\ LET r == TryInstall(class_path) IN
        /\ _auth_handler' = IF r.exc = "" THEN r.inst ELSE _auth_handler
        /\ setResult' = [class_path |-> class_path, raised |-> InstallError(r.exc)]
    /\ UNCHANGED <<phase, environ, unknown, GENEPATTERN_URL, pc, call, sent, response, error, result,
                   tool, doc, tools, remote, threads>>

----------------------------------------------------------------------------
(* server.py: start of the server process *)

LocalUrl == "http://localhost:8080/gp"
\* A base URL written with a trailing slash, and one set after startup
SlashUrl == "https://gp.example.org/gp/"
LateUrl == "https://late.example.org/gp"

\* The functions each module decorates with @mcp.tool(), in definition order
ToolNames(module) ==
    CASE module = "files" ->
            <<"rename_file", "create_directory", "delete_file_or_directory", "copy_file",
              "move_file", "get_user_files">>
      [] module = "jobs" ->
            <<"add_job", "search_jobs", "get_job_details", "get_job_status",
              "get_multiple_job_statuses", "get_recent_jobs", "get_incomplete_jobs",
              "get_job_children", "terminate_job", "delete_job", "delete_jobs",
              "get_job_permissions", "set_job_permissions", "add_job_tag", "delete_job_tag",
              "download_job_results", "get_job_code_example", "get_visualizer_input_files",
              "get_visualizer_command_line">>
      [] module = "system" ->
            <<"get_user_summary", "log_client_message", "get_system_message",
              "set_system_message", "get_property", "get_gene_pattern_version",
              "get_config_user", "is_admin">>
      [] module = "tasks" ->
            <<"get_task_manifest", "get_all_tasks", "get_task_details", "get_task_eula_info",
              "accept_task_eula", "get_task_code_example", "get_parameter_choice_info",
              "get_task_documentation">>
      [] module = "uploads" ->
            <<"upload_whole_file", "start_server_multipart_upload",
              "upload_server_multipart_chunk", "get_server_multipart_status",
              "assemble_server_multipart_upload", "start_s3_multipart_upload",
              "get_s3_presigned_url_for_part", "register_external_upload",
              "check_resumable_chunk", "upload_resumable_chunk">>
      [] module = "config" ->
            <<"get_system_message", "set_system_message", "get_server_property",
              "get_gator_version", "get_current_user_id", "is_admin", "check_is_admin",
              "get_gator_url">>
      [] module = "data" ->
            <<"rename_file", "create_directory", "delete_file_or_directory", "copy_file",
              "move_file", "get_user_files", "download_item", "upload_file",
              "upload_job_input_from_body", "upload_job_input_from_form",
              "upload_job_output", "create_pipeline">>
      [] module = "disk" -> <<"get_disk_info", "notify_max_jobs_exceeded">>
      [] module = "tags" -> <<"get_all_tags", "pin_module", "repin_module", "unpin_module">>
      [] OTHER -> <<"get_user_summary_stats">>

\* Variant: a tool stored whatever is registered
AddsToolAlways(names, name) == TRUE

\* FastMCP add_tool, called by the @mcp.tool() decorator: the tool is stored
\* unless its name is registered already, in which case the first tool is kept
AddsTool(names, name) == name \notin names

\* The decorators that run when the modules are loaded in the given order
RECURSIVE Decorated(_)
Decorated(modules) ==
    IF modules = <<>> THEN <<>>
    ELSE [k \in 1..Len(ToolNames(modules[1])) |->
             [name |-> ToolNames(modules[1])[k], module |-> modules[1]]]
         \o Decorated(Tail(modules))

\* The registry after the modules are loaded: the decorated functions that
\* add_tool stored, in order
RegisterAll(registry, modules) ==
    LET attempts == registry \o Decorated(modules)
        NamesBefore(i) == {attempts[j].name : j \in 1..(i - 1)}
        stored == {i \in 1..Len(attempts) :
                      i <= Len(registry) \/ AddsTool(NamesBefore(i), attempts[i].name)}
        Nth(k) == CHOOSE i \in stored : Cardinality({j \in stored : j <= i}) = k
    IN  [k \in 1..Cardinality(stored) |-> attempts[Nth(k)]]

\* The tool modules server.py imports, in order
ServerImports == <<"files", "jobs", "system", "tasks", "uploads">>


\* Values of --genepattern and --key on the command line (None: flag not given)
UrlFlags == {None, PyStr(LocalUrl)}
KeyFlags == {None, PyStr("k1")}

\* Arguments server.py does not declare, left in `unknown` by parse_known_args
UnknownArgs ==
    { <<>> } \cup { << [flag |-> "--auth-handler", value |-> cp] >> :
                      cp \in { <<"no_such_module", "Handler">> } }

\* os.getenv(name, default)
GetEnv(env, name, default) == IF env[name] = None THEN default ELSE env[name]

\* The whole script: parse the arguments, write the environment, load _shared
\* (which reads GENEPATTERN_URL and creates the default provider), register the
\* tools and run the server.
ServerStartup ==
    /\ phase = "boot"
    /\ \E genepattern \in UrlFlags, key \in KeyFlags, rest \in UnknownArgs :
        LET args_genepattern == IF genepattern = None
                                THEN GetEnv(environ, "GENEPATTERN_URL", PyStr(DefaultUrl))
                                ELSE genepattern
            args_key == IF key = None THEN GetEnv(environ, "GENEPATTERN_KEY", None) ELSE key
            env == [GENEPATTERN_URL |-> PyStr(Str(args_genepattern)),
                    GENEPATTERN_KEY |-> PyStr(Str(args_key))]
        IN  /\ environ' = env
            /\ unknown' = rest
            /\ GENEPATTERN_URL' = Str(GetEnv(env, "GENEPATTERN_URL", PyStr(DefaultUrl)))
            /\ _auth_handler' = Instance(EnvAuthHandler)
            /\ phase' = "serving"
            /\ tools' = RegisterAll(<<>>, ServerImports)
    /\ UNCHANGED <<setResult, pc, call, sent, response, error, result, tool, doc, remote, threads>>

\* _shared loaded by a program that uses the dispatcher without server.py
ImportShared ==
    /\ phase = "boot"
    /\ GENEPATTERN_URL' = Str(GetEnv(environ, "GENEPATTERN_URL", PyStr(DefaultUrl)))
    /\ _auth_handler' = Instance(EnvAuthHandler)
    /\ phase' = "library"
    /\ UNCHANGED <<environ, unknown, setResult, pc, call, sent, response, error, result, tool, doc,
                   tools, remote, threads>>

----------------------------------------------------------------------------
(* JSON bodies: json.dumps on the server, response.json() in the dispatcher *)

PyList(seq) == [t |-> "list", v |-> seq]
PyDict(f) == [t |-> "dict", v |-> f]
Bytes(tokens) == [t |-> "bytes", v |-> tokens]
\* A str held as the sequence of its fragments
Text(fragments) == [t |-> "text", v |-> fragments]

\* An entry of the module listing (/v1/tasks/all.json, key 'all_modules'); the
\* documentation URL and media type are text held as fragments
Module(name, lsid, url, mimetype) ==
    PyDict([k \in {"name", "lsid"}
                   \cup (IF url = <<>> THEN {} ELSE {"documentation"})
                   \cup (IF mimetype = <<>> THEN {} ELSE {"documentation_mimetype"}) |->
              CASE k = "name" -> PyStr(name)
                [] k = "lsid" -> PyStr(lsid)
                [] k = "documentation" -> Text(url)
                [] OTHER -> Text(mimetype)])

\* The modules installed on the server, in listing order
AllModules ==
    <<Module("Bare", "urn:lsid:6", <<>>, <<>>),
      Module("Preprocess", "urn:lsid:1", <<"/gp/module/doc/", "1", ".pdf">>,
             <<"application", "/", "pdf">>),
      Module("Convert", "urn:lsid:2", <<"/gp/module/doc/", "2", ".html">>,
             <<"text", "/", "html">>),
      Module("Heatmap", "urn:lsid:3", <<"/gp/module/doc/", "3", ".PDF">>, <<>>),
      Module("Cluster", "urn:lsid:4", <<"/gp/module/doc/", "4", ".txt">>, <<>>),
      Module("Legacy", "urn:lsid:5", <<"/gp/module/doc/", "5", ".doc">>,
             <<"application", "/", "msword">>)>>

Modules == {AllModules[i] : i \in 1..Len(AllModules)}

\* The token an encoded listing entry is read as: the object abbreviated to its lsid
ObjectToken(x) == "{'lsid': '" \o x.v["lsid"].v \o "', ...}"

\* The token a scalar is written as
ScalarToken(x) ==
    CASE x.t = "NoneType" -> "null"
      [] x.t = "bool" -> IF x.v = "True" THEN "true" ELSE "false"
      [] x.t = "int" -> x.v
      [] OTHER -> "'" \o x.v \o "'"

JsonScalars == {None, PyTrue, PyInt("7"), PyStr("a"), PyStr("ok")}
ScalarTokens == {ScalarToken(x) : x \in JsonScalars}
ParseScalar(tok) == CHOOSE x \in JsonScalars : ScalarToken(x) = tok

\* An item of an array: a scalar or a listing entry
ItemToken(x) == IF x.t = "dict" THEN ObjectToken(x) ELSE ScalarToken(x)
ItemTokens == ScalarTokens \cup {ObjectToken(x) : x \in Modules}
ParseItem(tok) ==
    IF tok \in ScalarTokens THEN ParseScalar(tok)
    ELSE CHOOSE x \in Modules : ObjectToken(x) = tok

RECURSIVE DumpsItems(_)
DumpsItems(seq) ==
    IF seq = <<>> THEN <<>>
    ELSE IF Len(seq) = 1 THEN <<ItemToken(seq[1])>>
    ELSE <<ItemToken(seq[1]), ",">> \o DumpsItems(Tail(seq))

DumpsList(x) == <<"[">> \o DumpsItems(x.v) \o <<"]">>

\* json.dumps of a scalar, a list of items or a dict with one key whose value is
\* a scalar or a list
JsonDumps(x) ==
    CASE x.t = "list" -> DumpsList(x)
      [] x.t = "dict" -> LET k == CHOOSE k \in DOMAIN x.v : TRUE
                         IN  <<"{", ScalarToken(PyStr(k)), ":">>
                                \o (IF x.v[k].t = "list" THEN DumpsList(x.v[k])
                                    ELSE <<ScalarToken(x.v[k])>>)
                                \o <<"}">>
      [] OTHER -> <<ScalarToken(x)>>

\* The items between the brackets: items separated by single commas
RECURSIVE ItemsOk(_)
ItemsOk(toks) ==
    IF toks = <<>> THEN FALSE
    ELSE IF Len(toks) = 1 THEN toks[1] \in ItemTokens
    ELSE /\ Len(toks) >= 3
         /\ toks[1] \in ItemTokens
         /\ toks[2] = ","
         /\ ItemsOk(SubSeq(toks, 3, Len(toks)))

RECURSIVE LoadsItems(_)
LoadsItems(toks) ==
    IF Len(toks) <= 1 THEN <<ParseItem(toks[1])>>
    ELSE <<ParseItem(toks[1])>> \o LoadsItems(SubSeq(toks, 3, Len(toks)))

\* The key of a dict: a quoted string token
DictKeys == {"status", "a", "ok", "all_modules"}
KeyOf(tok) == CHOOSE k \in DictKeys : ScalarToken(PyStr(k)) = tok
IsKeyToken(tok) == \E k \in DictKeys : ScalarToken(PyStr(k)) = tok

\* A scalar or an array
LoadsValue(toks) ==
    IF Len(toks) = 1 /\ toks[1] \in ScalarTokens
        THEN [ok |-> TRUE, value |-> ParseScalar(toks[1])]
    ELSE IF Len(toks) = 2 /\ toks = <<"[", "]">>
        THEN [ok |-> TRUE, value |-> PyList(<<>>)]
    ELSE IF Len(toks) >= 3 /\ toks[1] = "[" /\ toks[Len(toks)] = "]"
            /\ ItemsOk(SubSeq(toks, 2, Len(toks) - 1))
        THEN [ok |-> TRUE, value |-> PyList(LoadsItems(SubSeq(toks, 2, Len(toks) - 1)))]
    ELSE [ok |-> FALSE, value |-> None]

\* json.loads: [ok |-> FALSE] when the body is not a JSON document
JsonLoads(toks) ==
    IF LoadsValue(toks).ok THEN LoadsValue(toks)
    ELSE IF Len(toks) >= 5 /\ toks[1] = "{" /\ IsKeyToken(toks[2]) /\ toks[3] = ":"
            /\ toks[Len(toks)] = "}" /\ LoadsValue(SubSeq(toks, 4, Len(toks) - 1)).ok
        THEN [ok |-> TRUE,
              value |-> PyDict([k \in {KeyOf(toks[2])} |->
                                  LoadsValue(SubSeq(toks, 4, Len(toks) - 1)).value])]
    ELSE [ok |-> FALSE, value |-> None]

----------------------------------------------------------------------------
(* _make_request: the request dispatcher *)

Json == <<"application/", "json">>

\* Variant: the defaults written over the extra headers
BuildHeadersDefaultsLast(api_key, extra_headers) ==
    LET defaults == [h \in {"Authorization", "Accept"} |->
                        IF h = "Authorization" THEN <<"Bearer ", Str(api_key)>> ELSE Json]
    IN  IF extra_headers = None \/ DOMAIN extra_headers.v = {} THEN defaults
        ELSE [h \in DOMAIN defaults \cup DOMAIN extra_headers.v |->
                IF h \in DOMAIN defaults THEN defaults[h] ELSE extra_headers.v[h]]

\* headers = {Authorization, Accept}; if extra_headers: headers.update(extra_headers)
BuildHeaders(api_key, extra_headers) ==
    LET defaults == [h \in {"Authorization", "Accept"} |->
                        IF h = "Authorization" THEN <<"Bearer ", Str(api_key)>> ELSE Json]
    IN  IF extra_headers = None \/ DOMAIN extra_headers.v = {} THEN defaults
        ELSE [h \in DOMAIN defaults \cup DOMAIN extra_headers.v |->
                IF h \in DOMAIN extra_headers.v THEN extra_headers.v[h] ELSE defaults[h]]

\* Variant: `if v` in place of `if v is not None`
FilterParamsTruthy(params) ==
    IF params = None \/ DOMAIN params.v = {} THEN params
    ELSE PyDict([k \in {k \in DOMAIN params.v : Truthy(params.v[k])} |-> params.v[k]])

\* if params: params = {k: v for k, v in params.items() if v is not None}
FilterParams(params) ==
    IF params = None \/ DOMAIN params.v = {} THEN params
    ELSE PyDict([k \in {k \in DOMAIN params.v : params.v[k] # None} |-> params.v[k]])

\* The query string the HTTP library writes for `params`: one key=str(value)
\* pair per entry, an entry whose value is None being left out
EncodeQuery(params) ==
    IF params = None THEN <<>>
    ELSE [k \in {k \in DOMAIN params.v : params.v[k] # None} |-> Str(params.v[k])]

\* The body the HTTP library prepares from json=, data= and files=: files make
\* a multipart body together with form fields and refuse raw data with a
\* ValueError; otherwise data, when not empty, is the body; the JSON document
\* is written only when there is neither
PrepareBody(json_data, data, files) ==
    IF Truthy(files)
    THEN IF data.t \in {"str", "bytes"}
         THEN [exc |-> "ValueError", json |-> None, data |-> None, files |-> None]
         ELSE [exc |-> "", json |-> None, data |-> IF Truthy(data) THEN data ELSE None,
               files |-> files]
    ELSE IF Truthy(data)
    THEN [exc |-> "", json |-> None, data |-> data, files |-> None]
    ELSE [exc |-> "", json |-> json_data, data |-> None, files |-> None]

\* url=f"{REST_URL}{path}" with REST_URL = f"{GENEPATTERN_URL}/rest"
REST_URL(base) == <<base, "/rest">>

\* Variant: the base URL read from the environment at every call
RequestUrlFromEnviron(base, path) ==
    <<Str(GetEnv(environ, "GENEPATTERN_URL", PyStr(DefaultUrl))), "/rest">> \o path

\* f"{REST_URL}{path}"
RequestUrl(base, path) == REST_URL(base) \o path

\* The URL of the prepared request: the url followed by the encoded query
PreparedUrl(req) == [url |-> req.url, query |-> EncodeQuery(req.params)]

\* Variant: only server errors raise
RaisesForServerError(status_code) == status_code >= 500 /\ status_code < 600

\* response.raise_for_status() raises HTTPError for client and server error statuses
RaisesForStatus(status_code) == status_code >= 400 /\ status_code < 600

\* response.headers.get(name, default)
HeaderGet(headers, name, default) == IF name \in DOMAIN headers THEN headers[name] ELSE default

\* response.text: the content decoded with errors replaced
Undecodable == "<invalid byte>"
Replacement == "<U+FFFD>"
ResponseText(r) == Text([i \in 1..Len(r.content.v) |->
                            IF r.content.v[i] = Undecodable THEN Replacement ELSE r.content.v[i]])

NoResult == [kind |-> "none"]
Return(value) == [kind |-> "return", value |-> value]
Raise(type, prefix, status_code, url, detail) ==
    [kind |-> "raise", type |-> type, prefix |-> prefix, status_code |-> status_code,
     url |-> url, detail |-> detail]

Ack == PyDict([k \in {"status", "message"} |->
                IF k = "status" THEN PyStr("success")
                ELSE PyStr("Request completed with no content.")])

NoUrl == [url |-> <<>>, query |-> <<>>]

\* Variant: the transport failure reported with the remote-rejection prefix
OnRequestExceptionAsHTTP(message) ==
    Raise("Exception", "HTTP Error: ", 0, NoUrl, Text(<<message>>))

\* except requests.exceptions.RequestException as req_err
OnRequestException(message) ==
    Raise("Exception", "Request Exception: ", 0, NoUrl, Text(<<message>>))

\* except requests.exceptions.HTTPError as http_err
OnHTTPError(req, r) ==
    Raise("Exception", "HTTP Error: ", r.status_code, PreparedUrl(req), ResponseText(r))

\* response.json() on a body that is not JSON: the library's JSONDecodeError is a
\* RequestException in current releases and a plain ValueError in older ones
OnJsonDecodeError ==
    { OnRequestException("Expecting value"),
      Raise("JSONDecodeError", "", 0, NoUrl, Text(<<"Expecting value">>)) }

\* Variant: the 204 test made after the Content-Type tests
NormalizeStatusLast(r) ==
    LET content_type == HeaderGet(r.headers, "Content-Type", <<>>) IN
    IF Contains(content_type, Json)
    THEN LET parsed == JsonLoads(r.content.v) IN
         IF parsed.ok THEN { Return(parsed.value) } ELSE OnJsonDecodeError
    ELSE IF Contains(content_type, <<"text/">>) THEN { Return(ResponseText(r)) }
    ELSE IF r.status_code = 204 THEN { Return(Ack) }
    ELSE { Return(r.content) }

\* Variant: the text branch tested before the JSON branch
NormalizeTextFirst(r) ==
    IF r.status_code = 204 THEN { Return(Ack) }
    ELSE LET content_type == HeaderGet(r.headers, "Content-Type", <<>>) IN
         IF Contains(content_type, <<"text/">>) THEN { Return(ResponseText(r)) }
         ELSE IF Contains(content_type, Json)
         THEN LET parsed == JsonLoads(r.content.v) IN
              IF parsed.ok THEN { Return(parsed.value) } ELSE OnJsonDecodeError
         ELSE { Return(r.content) }

\* The lines after raise_for_status: the possible outcomes for a response
Normalize(r) ==
    IF r.status_code = 204 THEN { Return(Ack) }
    ELSE LET content_type == HeaderGet(r.headers, "Content-Type", <<>>) IN
         IF Contains(content_type, Json)
         THEN LET parsed == JsonLoads(r.content.v) IN
              IF parsed.ok THEN { Return(parsed.value) } ELSE OnJsonDecodeError
         ELSE IF Contains(content_type, <<"text/">>) THEN { Return(ResponseText(r)) }
         ELSE { Return(r.content) }

\* The try block once requests.request has returned a response
HandleResponse(req, r) ==
    IF RaisesForStatus(r.status_code) THEN { OnHTTPError(req, r) } ELSE Normalize(r)

NoResponse == [status_code |-> 0, headers |-> <<>>, content |-> Bytes(<<>>)]
NoCall == [context |-> "", method |-> "", path |-> <<>>, params |-> None, json_data |-> None,
           data |-> None, files |-> None, extra_headers |-> None]

\* _make_request up to the moment requests.request is waiting for the server
MakeRequest(context, method, path, params, json_data, data, files, extra_headers) ==
    /\ phase # "boot"
    /\ pc # "sent"
    /\ LET api_key == GetApiKey(_auth_handler, context, environ)
           headers == BuildHeaders(api_key, extra_headers)
           body == PrepareBody(json_data, data, files)
       IN  /\ sent' = << [method |-> method,
                          url |-> RequestUrl(GENEPATTERN_URL, path),
                          headers |-> headers,
                          params |-> FilterParams(params),
                          json |-> json_data,
                          data |-> data,
                          files |-> files,
                          body |-> body] >>
           /\ pc' = IF body.exc = "" THEN "sent" ELSE "raised"
           /\ result' = IF body.exc = "" THEN NoResult
                        ELSE Raise(body.exc, "", 0, NoUrl, Text(<<"Data must not be a string.">>))
    /\ call' = [context |-> context, method |-> method, path |-> path, params |-> params,
                json_data |-> json_data, data |-> data, files |-> files,
                extra_headers |-> extra_headers]
    /\ response' = NoResponse
    /\ error' = ""
    /\ UNCHANGED <<phase, environ, unknown, GENEPATTERN_URL, _auth_handler, setResult>>

\* requests.request returns a response: the rest of the try block runs
ReceiveResponse(r) ==
    /\ pc = "sent"
    /\ response' = r
    /\ error' = ""
    /\ \E outcome \in HandleResponse(sent[Len(sent)], r) :
        /\ result' = outcome
        /\ pc' = IF outcome.kind = "return" THEN "returned" ELSE "raised"
    /\ UNCHANGED <<phase, environ, unknown, GENEPATTERN_URL, _auth_handler, setResult,
                   call, sent>>

\* Variant: the request issued again after a transport failure
TransportFailureRetried(message) ==
    /\ pc = "sent"
    /\ Len(sent) < 2
    /\ sent' = Append(sent, sent[1])
    /\ UNCHANGED <<phase, environ, unknown, GENEPATTERN_URL, _auth_handler, setResult,
                   pc, call, response, error, result>>

\* requests.request raises: no response was received (DNS, connection, timeout)
TransportFailure(message) ==
    /\ pc = "sent"
    /\ response' = NoResponse
    /\ error' = message
    /\ result' = OnRequestException(message)
    /\ pc' = "raised"
    /\ UNCHANGED <<phase, environ, unknown, GENEPATTERN_URL, _auth_handler, setResult,
                   call, sent>>

----------------------------------------------------------------------------
(* Catalog entries *)

\* Two invocations of _make_request running at once, each with its own locals:
\* the arguments, the provider object read, the key it returned, the request
\* issued, the response and the outcome
Threads == {1, 2}
NoFrame == [pc |-> "idle", call |-> NoCall, handler |-> NoInstance, api_key |-> None,
            sent |-> <<>>, response |-> NoResponse, result |-> NoResult]

\* api_key = _auth_handler.get_api_key(context): the global is read and the key
\* obtained, once, on entry
ThreadEnter(t, context, method, path, params, json_data, data, files, extra_headers) ==
    /\ phase # "boot"
    /\ threads[t].pc \notin {"keyed", "sent"}
    /\ threads' = [threads EXCEPT ![t] =
            [pc |-> "keyed",
             call |-> [context |-> context, method |-> method, path |-> path, params |-> params,
                       json_data |-> json_data, data |-> data, files |-> files,
                       extra_headers |-> extra_headers],
             handler |-> _auth_handler,
             api_key |-> GetApiKey(_auth_handler, context, environ),
             sent |-> <<>>,
             response |-> NoResponse,
             result |-> NoResult]]
    /\ UNCHANGED <<phase, environ, unknown, GENEPATTERN_URL, _auth_handler, setResult,
                   pc, call, sent, response, error, result, tool, doc, tools, remote>>

\* The request a frame issues: headers from its api_key, the rest from its
\* arguments
FrameRequest(frame) ==
    [method |-> frame.call.method,
     url |-> RequestUrl(GENEPATTERN_URL, frame.call.path),
     headers |-> BuildHeaders(frame.api_key, frame.call.extra_headers),
     params |-> FilterParams(frame.call.params),
     json |-> frame.call.json_data,
     data |-> frame.call.data,
     files |-> frame.call.files,
     body |-> PrepareBody(frame.call.json_data, frame.call.data, frame.call.files)]

\* Variant: the key asked of the active provider again when the headers are built
ThreadSendRereadingKey(t) ==
    /\ threads[t].pc = "keyed"
    /\ LET frame == [threads[t] EXCEPT
                        !.api_key = GetApiKey(_auth_handler, threads[t].call.context, environ)]
           request == FrameRequest(frame)
       IN  threads' = [threads EXCEPT ![t] =
                [threads[t] EXCEPT
                    !.sent = <<request>>,
                    !.pc = IF request.body.exc = "" THEN "sent" ELSE "raised",
                    !.result = IF request.body.exc = "" THEN NoResult
                               ELSE Raise(request.body.exc, "", 0, NoUrl,
                                          Text(<<"Data must not be a string.">>))]]
    /\ UNCHANGED <<phase, environ, unknown, GENEPATTERN_URL, _auth_handler, setResult,
                   pc, call, sent, response, error, result, tool, doc, tools, remote>>

\* headers built, params filtered, requests.request called
ThreadSend(t) ==
    /\ threads[t].pc = "keyed"
    /\ LET request == FrameRequest(threads[t])
       IN  threads' = [threads EXCEPT ![t] =
                [threads[t] EXCEPT
                    !.sent = <<request>>,
                    !.pc = IF request.body.exc = "" THEN "sent" ELSE "raised",
                    !.result = IF request.body.exc = "" THEN NoResult
                               ELSE Raise(request.body.exc, "", 0, NoUrl,
                                          Text(<<"Data must not be a string.">>))]]
    /\ UNCHANGED <<phase, environ, unknown, GENEPATTERN_URL, _auth_handler, setResult,
                   pc, call, sent, response, error, result, tool, doc, tools, remote>>

\* Variant: the response handled against the request some invocation in flight
\* issued
ThreadReceiveShared(t, r) ==
    /\ threads[t].pc = "sent"
    /\ \E u \in Threads :
        /\ threads[u].pc = "sent"
        /\ \E outcome \in HandleResponse(threads[u].sent[1], r) :
            threads' = [threads EXCEPT ![t] =
                [threads[t] EXCEPT
                    !.response = r,
                    !.result = outcome,
                    !.pc = IF outcome.kind = "return" THEN "returned" ELSE "raised"]]
    /\ UNCHANGED <<phase, environ, unknown, GENEPATTERN_URL, _auth_handler, setResult,
                   pc, call, sent, response, error, result, tool, doc, tools, remote>>

\* requests.request returns to the invocation that called it
ThreadReceive(t, r) ==
    /\ threads[t].pc = "sent"
    /\ \E outcome \in HandleResponse(threads[t].sent[1], r) :
        threads' = [threads EXCEPT ![t] =
            [threads[t] EXCEPT
                !.response = r,
                !.result = outcome,
                !.pc = IF outcome.kind = "return" THEN "returned" ELSE "raised"]]
    /\ UNCHANGED <<phase, environ, unknown, GENEPATTERN_URL, _auth_handler, setResult,
                   pc, call, sent, response, error, result, tool, doc, tools, remote>>

\* requests.request raises in the invocation that called it
ThreadFail(t, message) ==
    /\ threads[t].pc = "sent"
    /\ threads' = [threads EXCEPT ![t] =
            [threads[t] EXCEPT !.result = OnRequestException(message), !.pc = "raised"]]
    /\ UNCHANGED <<phase, environ, unknown, GENEPATTERN_URL, _auth_handler, setResult,
                   pc, call, sent, response, error, result, tool, doc, tools, remote>>

NoTool == [name |-> "", args |-> <<>>]
NoDoc == [step |-> "none", task |-> None, mimetype |-> Text(<<>>), fetch |-> <<>>,
          response |-> NoResponse, result |-> NoResult]

\* A catalog entry is entered: it is the caller of the dispatch that follows.
\* No entry starts while get_task_documentation waits for a response.
ToolCall(name, args) ==
    /\ doc.step \notin {"listing", "fetching"}
    /\ tool' = [name |-> name, args |-> args]
    /\ doc' = NoDoc
    /\ UNCHANGED <<tools, remote, threads>>

\* disk.py
get_disk_info(context) ==
    /\ ToolCall("get_disk_info", <<>>)
    /\ MakeRequest(context, "GET", <<"/v1/disk">>, None, None, None, None, None)

notify_max_jobs_exceeded(context, task_name) ==
    /\ ToolCall("notify_max_jobs_exceeded", [task_name |-> task_name])
    /\ MakeRequest(context, "POST", <<"/v1/disk/notifyMaxJobsExceeded">>,
                PyDict([k \in {"taskName"} |-> task_name]), None, None, None, None)

\* system.py
get_system_message(context) ==
    /\ ToolCall("get_system_message", <<>>)
    /\ MakeRequest(context, "GET", <<"/v1/config/system-message">>, None, None, None, None,
                PyDict([h \in {"Accept"} |-> <<"text/", "html">>]))

\* uploads.py
register_external_upload(context, path, length, upload_id, parts_payload) ==
    /\ ToolCall("register_external_upload",
                [path |-> path, length |-> length, upload_id |-> upload_id,
                 parts_payload |-> parts_payload])
    /\ MakeRequest(context, "POST", <<"/v1/upload/registerExternalUpload">>,
                PyDict([k \in {"path", "length", "uploadId"} |->
                          CASE k = "path" -> path
                            [] k = "length" -> PyStr(Str(length))
                            [] OTHER -> upload_id]),
                None, parts_payload, None,
                PyDict([h \in {"Content-Type"} |-> <<"text/", "plain">>]))

\* Variant: the job object requested in place of its status
get_job_status_object(context, job_id) ==
    /\ ToolCall("get_job_status", [job_id |-> job_id])
    /\ MakeRequest(context, "GET", <<"/v1/jobs/", Str(job_id)>>,
                   None, None, None, None, None)

\* jobs.py
get_job_status(context, job_id) ==
    /\ ToolCall("get_job_status", [job_id |-> job_id])
    /\ MakeRequest(context, "GET", <<"/v1/jobs/", Str(job_id), "/status.json">>,
                   None, None, None, None, None)

\* jobs.py, search_jobs: the arguments popped under their remote names
CamelCase ==
    ("user_id" :> "userId") @@ ("group_id" :> "groupId") @@ ("batch_id" :> "batchId")
        @@ ("page_size" :> "pageSize") @@ ("order_by" :> "orderBy")
        @@ ("order_files_by" :> "orderFilesBy") @@ ("include_children" :> "includeChildren")
        @@ ("include_input_params" :> "includeInputParams")
        @@ ("include_output_files" :> "includeOutputFiles")
        @@ ("include_permissions" :> "includePermissions")

\* dict.pop(key): the mapping without the key
Pop(d, key) == [k \in DOMAIN d \ {key} |-> d[k]]

\* Variant: the arguments sent under their Python names
FinalParamsUnrenamed(locals) == Pop(locals, "context")

\* params = locals(); params.pop("context"); final_params = {remote name:
\* params.pop(python name), ..., **params}
FinalParams(locals) ==
    LET params == Pop(locals, "context")
        rest == DOMAIN params \ DOMAIN CamelCase
        renamed == {CamelCase[n] : n \in DOMAIN CamelCase}
    IN  [k \in renamed \cup rest |->
            IF k \in rest THEN params[k]
            ELSE params[CHOOSE n \in DOMAIN CamelCase : CamelCase[n] = k]]

\* {k: v for k, v in final_params.items() if v is not None}
DropNone(d) == [k \in {k \in DOMAIN d : d[k] # None} |-> d[k]]

search_jobs(context, args) ==
    /\ ToolCall("search_jobs", args)
    /\ MakeRequest(context, "GET", <<"/v1/jobs">>,
                   PyDict(DropNone(FinalParams(args @@ ("context" :> [t |-> "Context",
                                                                       v |-> context])))),
                   None, None, None, None)

\* An entry of the chunked-upload family is entered; the request it issues is
\* on its way to the remote server
UploadCall(name, args) ==
    /\ doc.step \notin {"listing", "fetching"}
    /\ Len(remote) < MaxUploadCalls
    /\ tool' = [name |-> name, args |-> args]
    /\ doc' = NoDoc
    /\ remote' = remote \o [i \in 1..Len(sent') |->
                                [method |-> sent'[i].method, url |-> sent'[i].url,
                                 query |-> EncodeQuery(sent'[i].params),
                                 data |-> sent'[i].body.data]]
    /\ UNCHANGED <<tools, threads>>

\* uploads.py: server-side chunked upload
start_server_multipart_upload(context, path, num_parts, file_size) ==
    /\ MakeRequest(context, "POST", <<"/v1/upload/multipart/">>,
                   PyDict([k \in {"path", "parts", "fileSize"} |->
                             CASE k = "path" -> path
                               [] k = "parts" -> num_parts
                               [] OTHER -> file_size]),
                   None, None, None, None)
    /\ UploadCall("start_server_multipart_upload",
                  [path |-> path, num_parts |-> num_parts, file_size |-> file_size])

\* Variant: the total number of parts left out of the request
upload_chunk_without_parts(context, token, path, chunk_index, total_parts, chunk_data) ==
    /\ MakeRequest(context, "PUT", <<"/v1/upload/multipart/">>,
                   PyDict([k \in {"token", "path", "index"} |->
                             CASE k = "token" -> token
                               [] k = "path" -> path
                               [] OTHER -> chunk_index]),
                   None, chunk_data, None, None)
    /\ UploadCall("upload_server_multipart_chunk",
                  [token |-> token, path |-> path, chunk_index |-> chunk_index,
                   total_parts |-> total_parts, chunk_data |-> chunk_data])

upload_server_multipart_chunk(context, token, path, chunk_index, total_parts, chunk_data) ==
    /\ MakeRequest(context, "PUT", <<"/v1/upload/multipart/">>,
                   PyDict([k \in {"token", "path", "index", "parts"} |->
                             CASE k = "token" -> token
                               [] k = "path" -> path
                               [] k = "index" -> chunk_index
                               [] OTHER -> total_parts]),
                   None, chunk_data, None, None)
    /\ UploadCall("upload_server_multipart_chunk",
                  [token |-> token, path |-> path, chunk_index |-> chunk_index,
                   total_parts |-> total_parts, chunk_data |-> chunk_data])

get_server_multipart_status(context, token, path, num_parts) ==
    /\ MakeRequest(context, "GET", <<"/v1/upload/multipart/">>,
                   PyDict([k \in {"token", "path", "parts"} |->
                             CASE k = "token" -> token
                               [] k = "path" -> path
                               [] OTHER -> num_parts]),
                   None, None, None, None)
    /\ UploadCall("get_server_multipart_status",
                  [token |-> token, path |-> path, num_parts |-> num_parts])

assemble_server_multipart_upload(context, path, token, num_parts) ==
    /\ MakeRequest(context, "POST", <<"/v1/upload/multipart/assemble/">>,
                   PyDict([k \in {"path", "token", "parts"} |->
                             CASE k = "path" -> path
                               [] k = "token" -> token
                               [] OTHER -> num_parts]),
                   None, None, None, None)
    /\ UploadCall("assemble_server_multipart_upload",
                  [path |-> path, token |-> token, num_parts |-> num_parts])

\* data.py
upload_file(context, path, file_content, replace) ==
    /\ ToolCall("upload_file", [path |-> path, file_content |-> file_content,
                                replace |-> replace])
    /\ MakeRequest(context, "PUT", <<"/v1/data/upload/", Str(path)>>,
                   PyDict([k \in {"replace"} |-> replace]), None, file_content, None, None)

\* tasks.py: the dispatch get_all_tasks makes, as a catalog entry of its own and
\* as the first step of get_task_documentation
get_all_tasks(context, include_hidden) ==
    MakeRequest(context, "GET", <<"/v1/tasks/all.json">>,
                IF Truthy(include_hidden)
                THEN PyDict([k \in {"includeHidden"} |-> PyStr("true")])
                ELSE PyDict(<<>>),
                None, None, None, None)

----------------------------------------------------------------------------
(* tasks.py: get_task_documentation *)

\* Bytes that are not ASCII, by name; every other byte token is ASCII text
HighBytes == {"0xC3", "0xA9", "0xFF"}

\* bytes.decode('utf-8'): 0xC3 0xA9 is the one two-byte sequence among the
\* bytes in use; a lone lead byte, a lone continuation byte and 0xFF are invalid
RECURSIVE Utf8Decode(_)
Utf8Decode(bytes) ==
    IF bytes = <<>> THEN [ok |-> TRUE, text |-> <<>>]
    ELSE IF bytes[1] \notin HighBytes
    THEN LET rest == Utf8Decode(Tail(bytes))
         IN  [ok |-> rest.ok, text |-> <<bytes[1]>> \o rest.text]
    ELSE IF Len(bytes) >= 2 /\ bytes[1] = "0xC3" /\ bytes[2] = "0xA9"
    THEN LET rest == Utf8Decode(SubSeq(bytes, 3, Len(bytes)))
         IN  [ok |-> rest.ok, text |-> <<"U+00E9">> \o rest.text]
    ELSE [ok |-> FALSE, text |-> <<>>]

\* bytes.decode('latin-1'): every byte is the code point of the same number
Latin1Decode(bytes) ==
    [i \in 1..Len(bytes) |->
        CASE bytes[i] = "0xC3" -> "U+00C3"
          [] bytes[i] = "0xA9" -> "U+00A9"
          [] bytes[i] = "0xFF" -> "U+00FF"
          [] OTHER -> bytes[i]]

\* Variant: Latin-1 tried first
DecodeTextLatinFirst(bytes) == Latin1Decode(bytes)

\* try: doc_bytes.decode('utf-8'); except UnicodeDecodeError: doc_bytes.decode('latin-1')
DecodeText(bytes) ==
    IF Utf8Decode(bytes).ok THEN Utf8Decode(bytes).text ELSE Latin1Decode(bytes)

\* A PDF file: header, one token per page (the page's text), trailer
PdfHeader == "%PDF-1.7"
PdfTrailer == "%%EOF"
PageTexts == [i \in 1..MaxPages |-> "page " \o ToString(i)]
PdfFile(pages) == <<PdfHeader>> \o pages \o <<PdfTrailer>>

\* pdfium.PdfDocument(doc_bytes) and page.get_textpage().get_text_range() for each
\* page: an exception when the file is not a PDF or a page is damaged
PdfDocument(bytes) ==
    IF /\ Len(bytes) >= 2
       /\ bytes[1] = PdfHeader
       /\ bytes[Len(bytes)] = PdfTrailer
       /\ \A i \in 2..(Len(bytes) - 1) : bytes[i] \notin HighBytes
    THEN [ok |-> TRUE, pages |-> SubSeq(bytes, 2, Len(bytes) - 1)]
    ELSE [ok |-> FALSE, pages |-> <<>>]

\* sep.join(seq)
RECURSIVE Join(_, _)
Join(sep, seq) ==
    IF seq = <<>> THEN <<>>
    ELSE IF Len(seq) = 1 THEN <<seq[1]>>
    ELSE <<seq[1], sep>> \o Join(sep, Tail(seq))

\* Variant: a newline after every page
PageTextTerminated(pages) ==
    [i \in 1..(2 * Len(pages)) |-> IF i % 2 = 1 THEN pages[(i + 1) \div 2] ELSE "\n"]

\* "\n".join(page.get_textpage().get_text_range() for page in pdf_doc)
PageText(pages) == Join("\n", pages)

\* str.lower() and str.endswith() on text held as fragments
Lower(fragment) == IF fragment = ".PDF" THEN ".pdf" ELSE fragment
EndsWith(fragments, suffix) == fragments # <<>> /\ fragments[Len(fragments)] = suffix

\* GENEPATTERN_URL[:-3]
DropLast3(url) ==
    CASE url = DefaultUrl -> "https://cloud.genepattern.org"
      [] url = LocalUrl -> "http://localhost:8080"
      [] url = SlashUrl -> "https://gp.example.org/"
      [] url = LateUrl -> "https://late.example.org"
      [] OTHER -> ""

\* dict.get(key): None when the key is missing
Get(d, key) == IF key \in DOMAIN d.v THEN d.v[key] ELSE None

\* `key in x`: membership in a dict's keys or a list, substring of a str;
\* "TypeError" for a value that is no container of str
In(key, x) ==
    CASE x.t = "dict" -> IF key \in DOMAIN x.v THEN "yes" ELSE "no"
      [] x.t = "list" -> IF \E i \in 1..Len(x.v) : x.v[i].t = "str" /\ x.v[i].v = key
                         THEN "yes" ELSE "no"
      [] x.t = "text" -> IF Contains(x.v, <<key>>) THEN "yes" ELSE "no"
      [] x.t = "str" -> IF x.v = key THEN "yes" ELSE "no"
      [] OTHER -> "TypeError"

DocDone(outcome) == [kind |-> "done", result |-> outcome, url |-> <<>>, mimetype |-> Text(<<>>)]
DocFetch(url, mimetype) ==
    [kind |-> "fetch", result |-> NoResult, url |-> url, mimetype |-> mimetype]
DocError(type, message) == DocDone(Raise(type, "", 0, NoUrl, Text(<<message>>)))

\* for module in module_list: the first entry whose name or lsid is the argument
RECURSIVE FindModule(_, _)
FindModule(module_list, task_name_or_lsid) ==
    IF module_list = <<>> THEN [kind |-> "none", module |-> None]
    ELSE IF module_list[1].t # "dict" THEN [kind |-> "error", module |-> None]
    ELSE IF \/ Get(module_list[1], "name") = task_name_or_lsid
            \/ Get(module_list[1], "lsid") = task_name_or_lsid
         THEN [kind |-> "found", module |-> module_list[1]]
    ELSE FindModule(Tail(module_list), task_name_or_lsid)

\* Step 3: the documentation URL and its media type, given or inferred
ResolveDocumentation(target_module, base) ==
    LET doc_url == Get(target_module, "documentation")
        doc_mimetype == Get(target_module, "documentation_mimetype")
    IN  IF ~Truthy(doc_url) THEN DocDone(Return(None))
        ELSE DocFetch(<<DropLast3(base)>> \o doc_url.v,
                      IF Truthy(doc_mimetype) THEN doc_mimetype
                      ELSE IF EndsWith([i \in 1..Len(doc_url.v) |-> Lower(doc_url.v[i])], ".pdf")
                      THEN Text(<<"application", "/", "pdf">>)
                      ELSE Text(<<"text", "/", "html">>))

\* Step 2: the search of the module list
SearchModules(module_list, task_name_or_lsid, base) ==
    CASE module_list.t = "list" ->
            LET found == FindModule(module_list.v, task_name_or_lsid) IN
            CASE found.kind = "error" ->
                    DocError("AttributeError", "object has no attribute 'get'")
              [] found.kind = "none" -> DocDone(Return(None))
              [] OTHER -> ResolveDocumentation(found.module, base)
      [] module_list.t = "str" ->
            IF module_list.v = "" THEN DocDone(Return(None))
            ELSE DocError("AttributeError", "object has no attribute 'get'")
      [] OTHER -> DocError("TypeError", "object is not iterable")

\* Steps 1 to 3 once get_all_tasks has returned: what the tool does next
AfterListing(all_tasks_response, task_name_or_lsid, base) ==
    IF ~Truthy(all_tasks_response) THEN DocDone(Return(None))
    ELSE IF In("all_modules", all_tasks_response) = "TypeError"
        THEN DocError("TypeError", "argument is not a container of str")
    ELSE IF In("all_modules", all_tasks_response) = "no" THEN DocDone(Return(None))
    ELSE IF all_tasks_response.t # "dict"
        THEN DocError("TypeError", "indices must be integers")
    ELSE SearchModules(all_tasks_response.v["all_modules"], task_name_or_lsid, base)

\* Variant: the asset fetched with the headers of the listing dispatch
AssetRequestWithDispatchHeaders(url) ==
    [method |-> "GET", url |-> url, headers |-> sent[Len(sent)].headers, timeout |-> 30,
     allow_redirects |-> TRUE]

\* requests.get(full_url, timeout=30, allow_redirects=True): no headers are given
AssetRequest(url) ==
    [method |-> "GET", url |-> url, headers |-> <<>>, timeout |-> 30, allow_redirects |-> TRUE]

\* The position of the tool after steps 1 to 3, the asset request issued if any
Continue(next, task_name_or_lsid) ==
    IF next.kind = "fetch"
    THEN [step |-> "fetching", task |-> task_name_or_lsid, mimetype |-> next.mimetype,
          fetch |-> <<AssetRequest(next.url)>>, response |-> NoResponse, result |-> NoResult]
    ELSE [step |-> IF next.result.kind = "raise" THEN "raised" ELSE "returned",
          task |-> task_name_or_lsid, mimetype |-> Text(<<>>), fetch |-> <<>>,
          response |-> NoResponse, result |-> next.result]

\* The tool once get_all_tasks has finished: its error propagates, its value is
\* searched
OnListingOutcome(outcome, task_name_or_lsid, base) ==
    IF outcome.kind = "raise" THEN Continue(DocDone(outcome), task_name_or_lsid)
    ELSE Continue(AfterListing(outcome.value, task_name_or_lsid, base), task_name_or_lsid)

\* Step 5: the downloaded bytes turned into text by media type
ProcessAsset(doc_mimetype, doc_bytes) ==
    IF Contains(doc_mimetype.v, <<"pdf">>)
    THEN LET pdf_doc == PdfDocument(doc_bytes.v)
         IN  IF pdf_doc.ok THEN Return(Text(PageText(pdf_doc.pages))) ELSE Return(None)
    ELSE IF Contains(doc_mimetype.v, <<"text">>) \/ Contains(doc_mimetype.v, <<"html">>)
    THEN Return(Text(DecodeText(doc_bytes.v)))
    ELSE Return(None)

\* Steps 4 and 5 once requests.get has returned a response
OnAssetResponse(doc_mimetype, r) ==
    IF RaisesForStatus(r.status_code) THEN Return(None)
    ELSE ProcessAsset(doc_mimetype, r.content)

\* The tool is entered: step 1 dispatches get_all_tasks(context)
get_task_documentation(context, task_name_or_lsid) ==
    /\ doc.step \notin {"listing", "fetching"}
    /\ tool' = [name |-> "get_task_documentation",
                args |-> [task_name_or_lsid |-> task_name_or_lsid]]
    /\ doc' = [NoDoc EXCEPT !.step = "listing", !.task = task_name_or_lsid]
    /\ UNCHANGED <<tools, remote, threads>>
    /\ get_all_tasks(context, PyFalse)

\* The listing dispatch receives a response; the tool runs on to its return or
\* to the asset request
DocListingResponse(r) ==
    /\ doc.step = "listing"
    /\ ReceiveResponse(r)
    /\ doc' = OnListingOutcome(result', doc.task, GENEPATTERN_URL)
    /\ UNCHANGED <<tool, tools, remote, threads>>

\* The listing dispatch fails in transport
DocListingFailure(message) ==
    /\ doc.step = "listing"
    /\ TransportFailure(message)
    /\ doc' = OnListingOutcome(result', doc.task, GENEPATTERN_URL)
    /\ UNCHANGED <<tool, tools, remote, threads>>

\* The asset request receives a response
DocAssetResponse(r) ==
    /\ doc.step = "fetching"
    /\ LET outcome == OnAssetResponse(doc.mimetype, r)
       IN  doc' = [doc EXCEPT !.response = r, !.result = outcome,
                              !.step = IF outcome.kind = "raise" THEN "raised" ELSE "returned"]
    /\ UNCHANGED <<phase, environ, unknown, GENEPATTERN_URL, _auth_handler, setResult,
                   pc, call, sent, response, error, result, tool, tools, remote, threads>>

\* requests.get raises a RequestException: the tool returns None
DocAssetFailure(message) ==
    /\ doc.step = "fetching"
    /\ doc' = [doc EXCEPT !.result = Return(None), !.step = "returned"]
    /\ UNCHANGED <<phase, environ, unknown, GENEPATTERN_URL, _auth_handler, setResult,
                   pc, call, sent, response, error, result, tool, tools, remote, threads>>

----------------------------------------------------------------------------
(* Inputs *)

\* Query-parameter mappings handed to the dispatcher directly
ParamMaps ==
    { None,
      PyDict(<<>>),
      PyDict([k \in {"a", "b"} |-> None]),
      PyDict([k \in {"a", "b"} |-> IF k = "a" THEN PyStr("") ELSE None]),
      PyDict([k \in {"a", "b"} |-> IF k = "a" THEN PyFalse ELSE PyStr("None")]),
      PyDict([k \in {"a", "b"} |-> IF k = "a" THEN PyInt("0") ELSE PyStr("x")]) }

\* extra_headers handed to the dispatcher directly
ExtraHeaderMaps ==
    { None,
      PyDict([h \in {"Authorization"} |-> <<"Basic ", "dXNlcg==">>]),
      PyDict([h \in {"X-Trace"} |-> <<"1">>]),
      PyDict([h \in {"Accept", "X-Trace"} |-> IF h = "Accept" THEN <<"*/*">> ELSE <<"1">>]) }

\* Values a server encodes as JSON: a scalar, a dict, and the lists that are
\* prefixes of Elements
Elements == <<PyInt("7"), PyStr("a"), None, PyTrue>>
ServerValues ==
    { PyDict([k \in {"status"} |-> PyStr("ok")]) }
        \cup { PyList(SubSeq(Elements, 1, n)) : n \in 0..MaxArrayLen }

\* Response bodies: encoded values and a body that is not JSON
Bodies ==
    { JsonDumps(x) : x \in ServerValues } \cup { <<"hi", Undecodable>> }

ContentTypeValues ==
    { <<"application/", "json", "; charset=utf-8">>,
      <<"text/", "html">>,
      <<"text/", "plain", "; profile=", "application/", "json">>,
      <<"application/", "octet-stream">> }

ResponseHeaders == { <<>> } \cup { [h \in {"Content-Type"} |-> ct] : ct \in ContentTypeValues }

Statuses == {200, 204, 404, 500}

Responses ==
    { [status_code |-> st, headers |-> hs, content |-> Bytes(b)] :
        st \in Statuses, hs \in ResponseHeaders, b \in Bodies }

TransportErrors == {"Connection refused", "Read timed out"}

----------------------------------------------------------------------------
(* Specification *)

Init ==
    /\ phase = "boot"
    /\ environ \in [GENEPATTERN_URL : {None}, GENEPATTERN_KEY : {None, PyStr("k0")}]
    /\ unknown = <<>>
    /\ GENEPATTERN_URL = ""
    /\ _auth_handler = NoInstance
    /\ setResult = NoSetResult
    /\ pc = "idle"
    /\ call = NoCall
    /\ sent = <<>>
    /\ response = NoResponse
    /\ error = ""
    /\ result = NoResult
    /\ tool = NoTool
    /\ doc = NoDoc
    /\ tools = <<>>
    /\ remote = <<>>
    /\ threads = [t \in Threads |-> NoFrame]

\* Provider installations tried while the dispatcher is exercised
SwapPaths ==
    { <<"my_auth", "SessionAuthHandler">>,
      <<"my_auth", "PlainClass">> }

SwapProvider == \E class_path \in SwapPaths : set_auth_handler(class_path)

InstallProvider == \E class_path \in ClassPaths : set_auth_handler(class_path)

DispatchDirect ==
    \E context \in Contexts, params \in ParamMaps, extra_headers \in ExtraHeaderMaps :
        /\ params = None \/ extra_headers = None
        /\ ToolCall("_make_request", <<>>)
        /\ MakeRequest(context, "GET", <<"/v1/disk">>, params, None, None, None, extra_headers)

CallDiskInfo == get_disk_info("s1")

CallNotifyMaxJobs ==
    \E task_name \in {None, PyStr("Preprocess")} : notify_max_jobs_exceeded("s2", task_name)

CallSystemMessage == get_system_message("s1")

CallRegisterUpload ==
    register_external_upload("s2", PyStr("a/b.txt"), PyInt("2"), PyStr("u1"), PyStr("[]"))

\* A response or a transport failure reaching the dispatch of a one-step entry
Respond ==
    /\ doc.step # "listing"
    /\ \E r \in Responses : ReceiveResponse(r)
    /\ UNCHANGED <<tool, doc, tools, remote, threads>>

Fail ==
    /\ doc.step # "listing"
    /\ \E message \in TransportErrors : TransportFailure(message)
    /\ UNCHANGED <<tool, doc, tools, remote, threads>>

\* The dispatcher under every request and response
Next ==
    \/ ServerStartup
    \/ ImportShared
    \/ SwapProvider
    \/ DispatchDirect
    \/ CallDiskInfo
    \/ CallNotifyMaxJobs
    \/ CallSystemMessage
    \/ CallRegisterUpload
    \/ Respond
    \/ Fail

Spec == Init /\ [][Next]_vars

\* Provider installation under every qualified name, with one catalog entry
\* dispatching
PlainResponses ==
    { [status_code |-> st, headers |-> <<>>, content |-> Bytes(<<"hi">>)] : st \in {200, 404} }

RespondPlain ==
    /\ doc.step # "listing"
    /\ \E r \in PlainResponses : ReceiveResponse(r)
    /\ UNCHANGED <<tool, doc, tools, remote, threads>>

NextInstall ==
    \/ ServerStartup
    \/ ImportShared
    \/ InstallProvider
    \/ CallDiskInfo
    \/ RespondPlain
    \/ Fail

SpecInstall == Init /\ [][NextInstall]_vars

\* os.environ["GENEPATTERN_KEY"] written or deleted by the running program
ChangeEnvKey ==
    /\ phase # "boot"
    /\ \E key \in {None, PyStr("k2")} :
        /\ key # environ.GENEPATTERN_KEY
        /\ environ' = [environ EXCEPT !.GENEPATTERN_KEY = key]
    /\ UNCHANGED <<phase, unknown, GENEPATTERN_URL, _auth_handler, setResult,
                   pc, call, sent, response, error, result, tool, doc, tools, remote, threads>>

\* The credential source changing while catalog entries dispatch
NextEnv ==
    \/ ServerStartup
    \/ ImportShared
    \/ SwapProvider
    \/ ChangeEnvKey
    \/ CallDiskInfo
    \/ CallSystemMessage
    \/ RespondPlain
    \/ Fail

SpecEnv == Init /\ [][NextEnv]_vars

\* The bodies a caller can hand to the dispatcher, alone or together
JsonBodies == {None, PyDict([k \in {"status"} |-> PyStr("ok")])}
DataBodies == {None, Bytes(<<"hi">>), PyDict([k \in {"a"} |-> PyStr("x")])}
FileBodies == {None, PyDict([k \in {"file"} |-> Bytes(<<"hi">>)])}

DispatchBodies ==
    \E json_data \in JsonBodies, data \in DataBodies, files \in FileBodies :
        /\ ToolCall("_make_request", <<>>)
        /\ MakeRequest("s1", "POST", <<"/v1/jobs">>, None, json_data, data, files, None)

NextBodies ==
    \/ ServerStartup
    \/ ImportShared
    \/ DispatchBodies
    \/ RespondPlain
    \/ Fail

SpecBodies == Init /\ [][NextBodies]_vars

\* A program that uses the package as a library loads a tool module; a module
\* already loaded is not run again
ImportTools(module) ==
    /\ phase = "library"
    /\ \A i \in 1..Len(tools) : tools[i].module # module
    /\ tools' = RegisterAll(tools, <<module>>)
    /\ UNCHANGED <<phase, environ, unknown, GENEPATTERN_URL, _auth_handler, setResult,
                   pc, call, sent, response, error, result, tool, doc, remote, threads>>

\* The modules that define operations of the same name
OverlappingModules == {"files", "data", "system", "config"}

LoadTools == \E module \in OverlappingModules : ImportTools(module)

\* The catalog registered by server.py and by library use
NextRegistry ==
    \/ ServerStartup
    \/ ImportShared
    \/ LoadTools
    \/ CallSystemMessage
    \/ RespondPlain

SpecRegistry == Init /\ [][NextRegistry]_vars

\* Arguments of the chunked-upload entries: a token the server issued and one it
\* never issued, the indices of a two-part file
UploadTokens == {PyStr("t1"), PyStr("unknown")}
ChunkIndices == {PyInt("0"), PyInt("1")}

StartUpload == start_server_multipart_upload("s1", PyStr("a/b.txt"), PyInt("2"), PyInt("4"))

UploadChunk ==
    \E token \in UploadTokens, chunk_index \in ChunkIndices :
        upload_server_multipart_chunk("s1", token, PyStr("a/b.txt"), chunk_index, PyInt("2"),
                                      Bytes(<<"hi">>))

QueryUploadStatus ==
    \E token \in UploadTokens :
        get_server_multipart_status("s1", token, PyStr("a/b.txt"), PyInt("2"))

AssembleUpload ==
    \E token \in UploadTokens :
        assemble_server_multipart_upload("s1", PyStr("a/b.txt"), token, PyInt("2"))

\* The chunked-upload entries called in every order
NextUpload ==
    \/ ServerStartup
    \/ StartUpload
    \/ UploadChunk
    \/ QueryUploadStatus
    \/ AssembleUpload
    \/ RespondPlain

SpecUpload == Init /\ [][NextUpload]_vars

\* search_jobs called with its defaults and with some filters given
SearchDefaults ==
    [n \in {"user_id", "group_id", "batch_id", "tag", "comment", "module", "page_size",
            "order_by", "order_files_by", "page", "include_children",
            "include_input_params", "include_output_files", "include_permissions"} |->
        CASE n = "page" -> PyInt("1")
          [] n \in {"include_children", "include_output_files", "include_permissions"} -> PyTrue
          [] n = "include_input_params" -> PyFalse
          [] OTHER -> None]

SearchArgs ==
    { [SearchDefaults EXCEPT !["user_id"] = user_id, !["page_size"] = page_size,
                             !["tag"] = tag, !["include_children"] = include_children] :
        user_id \in {None, PyStr("u1")}, page_size \in {None, PyInt("10")},
        tag \in {None, PyStr("")}, include_children \in {PyTrue, PyFalse} }

CallSearchJobs == \E args \in SearchArgs : search_jobs("s1", args)

NextSearch ==
    \/ ServerStartup
    \/ ImportShared
    \/ CallSearchJobs
    \/ RespondPlain

SpecSearch == Init /\ [][NextSearch]_vars

\* Arguments of the catalog entries
JobIds == {PyStr("12345"), PyStr("7")}
UploadPaths == {PyStr("a/b.txt")}
FileContents == {Bytes(<<"hi">>), Bytes(<<"h", "0xFF">>)}
TaskNames == {"Preprocess", "urn:lsid:2", "Heatmap", "Cluster", "Legacy", "Bare", "Missing"}

\* What the server answers to /v1/tasks/all.json: the listing of every module,
\* other JSON documents, and a body that is not JSON
ListingBodies ==
    { JsonDumps(PyDict([k \in {"all_modules"} |-> PyList(AllModules)])),
      JsonDumps(PyDict([k \in {"status"} |-> PyStr("ok")])),
      JsonDumps(PyTrue),
      <<"hi">> }

ListingResponses ==
    { [status_code |-> st, headers |-> hs, content |-> Bytes(b)] :
        st \in {200, 404},
        hs \in { <<>>,
                 [h \in {"Content-Type"} |-> <<"application/", "json">>],
                 [h \in {"Content-Type"} |-> <<"text/", "html">>] },
        b \in ListingBodies }

\* Documentation assets: text in ASCII, in UTF-8, in neither; PDF files of every
\* page count, one with a damaged page, one truncated
AssetBodies ==
    { <<>>, <<"h", "i">>, <<"0xC3", "0xA9">>, <<"h", "0xFF">>,
      PdfFile(<<"0xFF">>), <<PdfHeader, "page 1">> }
        \cup { PdfFile(SubSeq(PageTexts, 1, n)) : n \in 0..MaxPages }

AssetResponses ==
    { [status_code |-> st, headers |-> <<>>, content |-> Bytes(b)] :
        st \in {200, 404}, b \in AssetBodies }

CallJobStatus == \E job_id \in JobIds : get_job_status("s1", job_id)

CallUploadFile ==
    \E path \in UploadPaths, file_content \in FileContents, replace \in {PyTrue, PyFalse} :
        upload_file("s2", path, file_content, replace)

CallAllTasks ==
    \E include_hidden \in {PyTrue, PyFalse} :
        /\ ToolCall("get_all_tasks", [include_hidden |-> include_hidden])
        /\ get_all_tasks("s1", include_hidden)

CallTaskDocumentation ==
    \E task_name_or_lsid \in TaskNames : get_task_documentation("s1", PyStr(task_name_or_lsid))

ListingResponds == \E r \in ListingResponses : DocListingResponse(r)

ListingFails == \E message \in {"Connection refused"} : DocListingFailure(message)

AssetResponds == \E r \in AssetResponses : DocAssetResponse(r)

AssetFails == \E message \in {"Read timed out"} : DocAssetFailure(message)

\* The catalog entries, one-step and multi-step
NextCatalog ==
    \/ ServerStartup
    \/ ImportShared
    \/ CallJobStatus
    \/ CallUploadFile
    \/ CallAllTasks
    \/ CallTaskDocumentation
    \/ Respond
    \/ Fail
    \/ ListingResponds
    \/ ListingFails
    \/ AssetResponds
    \/ AssetFails

SpecCatalog == Init /\ [][NextCatalog]_vars

\* The process started with GENEPATTERN_URL set in its environment or not
InitUrl ==
    /\ phase = "boot"
    /\ environ \in [GENEPATTERN_URL : {None, PyStr(SlashUrl)}, GENEPATTERN_KEY : {PyStr("k0")}]
    /\ unknown = <<>>
    /\ GENEPATTERN_URL = ""
    /\ _auth_handler = NoInstance
    /\ setResult = NoSetResult
    /\ pc = "idle"
    /\ call = NoCall
    /\ sent = <<>>
    /\ response = NoResponse
    /\ error = ""
    /\ result = NoResult
    /\ tool = NoTool
    /\ doc = NoDoc
    /\ tools = <<>>
    /\ remote = <<>>
    /\ threads = [t \in Threads |-> NoFrame]

\* os.environ["GENEPATTERN_URL"] written or deleted by the running program
ChangeEnvUrl ==
    /\ phase # "boot"
    /\ \E url \in {None, PyStr(LateUrl)} :
        /\ url # environ.GENEPATTERN_URL
        /\ environ' = [environ EXCEPT !.GENEPATTERN_URL = url]
    /\ UNCHANGED <<phase, unknown, GENEPATTERN_URL, _auth_handler, setResult,
                   pc, call, sent, response, error, result, tool, doc, tools, remote, threads>>

\* Documentation requested for modules with and without a documentation URL
DocTasks == {"Preprocess", "urn:lsid:2", "Bare", "Missing"}

CallDocumentation ==
    \E task_name_or_lsid \in DocTasks : get_task_documentation("s1", PyStr(task_name_or_lsid))

ListingArrives ==
    \E r \in {r \in ListingResponses : Contains(HeaderGet(r.headers, "Content-Type", <<>>), Json)} :
        DocListingResponse(r)

AssetArrives ==
    \E r \in {r \in AssetResponses : Len(r.content.v) <= 2} : DocAssetResponse(r)

\* Every base URL, the environment changing after startup
NextUrl ==
    \/ ServerStartup
    \/ ImportShared
    \/ ChangeEnvUrl
    \/ CallJobStatus
    \/ RespondPlain
    \/ CallDocumentation
    \/ ListingArrives
    \/ ListingFails
    \/ AssetArrives
    \/ AssetFails

SpecUrl == InitUrl /\ [][NextUrl]_vars

\* Two callers asking for the status of different jobs at once
ThreadJobs == <<PyStr("12345"), PyStr("7")>>

ThreadJobStatus ==
    \E t \in Threads, context \in Contexts :
        ThreadEnter(t, context, "GET", <<"/v1/jobs/", Str(ThreadJobs[t]), "/status.json">>,
                    None, None, None, None, None)

ThreadSends == \E t \in Threads : ThreadSend(t)

ThreadReceives == \E t \in Threads, r \in PlainResponses : ThreadReceive(t, r)

ThreadFails == \E t \in Threads : ThreadFail(t, "Connection refused")

\* Concurrent dispatches, the provider and the configured key changing meanwhile
NextThreads ==
    \/ ServerStartup
    \/ ImportShared
    \/ SwapProvider
    \/ ChangeEnvKey
    \/ ThreadJobStatus
    \/ ThreadSends
    \/ ThreadReceives
    \/ ThreadFails

SpecThreads == Init /\ [][NextThreads]_vars

----------------------------------------------------------------------------
(* Properties *)

Done == pc \in {"returned", "raised"}
ResponseReceived == Done /\ response.status_code # 0
GivenParams == IF call.params = None THEN <<>> ELSE call.params.v
GivenExtra == IF call.extra_headers = None THEN <<>> ELSE call.extra_headers.v
ReceivedContentType ==
    IF "Content-Type" \in DOMAIN response.headers THEN response.headers["Content-Type"] ELSE <<>>

\* C1: for every dispatch and every query-parameter mapping, the transmitted
\* query holds exactly the entries whose value is not None, each with the
\* caller's value: a None-valued key is handed neither to the HTTP library nor
\* written into the query string.
C1_NoneParamsNeverSent ==
    \A i \in 1..Len(sent) :
        LET kept == {k \in DOMAIN GivenParams : GivenParams[k] # None}
            handed == IF sent[i].params = None THEN <<>> ELSE sent[i].params.v
            query == EncodeQuery(sent[i].params)
        IN  /\ DOMAIN handed = kept
            /\ DOMAIN query = kept
            /\ \A k \in kept : handed[k] = GivenParams[k] /\ query[k] = Str(GivenParams[k])

\* C1 witness: a request was sent for a mapping with a None entry and an empty-string entry
C1_Witness ==
    /\ pc = "sent"
    /\ call.params # None
    /\ DOMAIN call.params.v = {"a", "b"}
    /\ call.params.v["a"] = PyStr("")
    /\ call.params.v["b"] = None
    /\ DOMAIN sent[1].params.v = {"a"}

\* C2: a response with status >= 400 makes the dispatch raise the
\* remote-rejection error with that status code, the request URL and the
\* response body text, whatever the method, Content-Type or body; no value is
\* returned.
C2_ErrorStatusRaises ==
    (ResponseReceived /\ response.status_code >= 400) =>
        /\ pc = "raised"
        /\ result.kind = "raise"
        /\ result.prefix = "HTTP Error: "
        /\ result.status_code = response.status_code
        /\ result.url.url = <<GENEPATTERN_URL, "/rest">> \o call.path
        /\ DOMAIN result.url.query = {k \in DOMAIN GivenParams : GivenParams[k] # None}
        /\ \A k \in DOMAIN result.url.query : result.url.query[k] = Str(GivenParams[k])
        /\ result.detail.t = "text"
        /\ Len(result.detail.v) = Len(response.content.v)
        /\ \A i \in 1..Len(response.content.v) :
              result.detail.v[i] = IF response.content.v[i] = Undecodable
                                   THEN Replacement ELSE response.content.v[i]

\* C2 witness: a 404 with a JSON content type and a JSON body was raised as an error
C2_Witness ==
    /\ pc = "raised"
    /\ response.status_code = 404
    /\ Contains(ReceivedContentType, Json)
    /\ response.content.v = <<"[", "7", "]">>
    /\ result.kind = "raise"
    /\ result.status_code = 404
    /\ call.params # None

\* C3: when the request gets no response, the dispatch returns nothing and
\* raises an error that carries the transport message under the prefix
\* 'Request Exception: ', never the remote-rejection prefix 'HTTP Error: '.
C3_TransportFailureRaises ==
    (Done /\ error # "") =>
        /\ pc = "raised"
        /\ result.kind = "raise"
        /\ result.type = "Exception"
        /\ result.prefix = "Request Exception: "
        /\ result.prefix # "HTTP Error: "
        /\ result.detail.t = "text"
        /\ result.detail.v = <<error>>
        /\ response.status_code = 0

\* C3 witness: a timeout ended a dispatch
C3_Witness ==
    /\ pc = "raised"
    /\ error = "Read timed out"
    /\ result.kind = "raise"
    /\ result.detail.v = <<"Read timed out">>

\* C4: every dispatch issues exactly one request: one is outstanding or done
\* from the start of the call, none is added on success, on an error status or
\* on a transport failure, and the call has ended once the outcome is known.
C4_ExactlyOneRequest ==
    /\ (pc = "idle") => Len(sent) = 0
    /\ (pc # "idle") => Len(sent) = 1
    /\ (response.status_code # 0 \/ error # "") => Done

\* C4 witness: a dispatch ended by a transport failure with one request issued
C4_Witness ==
    /\ pc = "raised"
    /\ error # ""
    /\ Len(sent) = 1

\* C5: a 204 response makes the dispatch return the fixed acknowledgment
\* {status: success, message: ...} for every method, Content-Type and body.
C5_NoContentAcknowledged ==
    (ResponseReceived /\ response.status_code = 204) =>
        /\ pc = "returned"
        /\ result.kind = "return"
        /\ result.value.t = "dict"
        /\ DOMAIN result.value.v = {"status", "message"}
        /\ result.value.v["status"] = PyStr("success")
        /\ result.value.v["message"] = PyStr("Request completed with no content.")

\* C5 witness: a 204 that announces JSON and carries a body, answered to a POST
C5_Witness ==
    /\ pc = "returned"
    /\ response.status_code = 204
    /\ Contains(ReceivedContentType, Json)
    /\ response.content.v = <<"hi", Undecodable>>
    /\ call.method = "POST"
    /\ result.value.t = "dict"

\* C6: a successful response other than 204 is normalized by its Content-Type
\* in a fixed precedence: containing 'application/json', the parsed value, equal
\* to the value the server encoded; else containing 'text/', the body as text;
\* otherwise, also without a Content-Type header, the raw bytes.
C6_NormalizedByContentType ==
    (ResponseReceived /\ response.status_code < 400 /\ response.status_code # 204) =>
        IF Contains(ReceivedContentType, <<"application/", "json">>)
        THEN \A x \in ServerValues :
                (response.content.v = JsonDumps(x)) =>
                    /\ pc = "returned"
                    /\ result.kind = "return"
                    /\ result.value.t = x.t
                    /\ result.value = x
        ELSE IF Contains(ReceivedContentType, <<"text/">>)
        THEN /\ pc = "returned"
             /\ result.kind = "return"
             /\ result.value.t = "text"
             /\ Len(result.value.v) = Len(response.content.v)
             /\ \A i \in 1..Len(response.content.v) :
                    result.value.v[i] = IF response.content.v[i] = Undecodable
                                        THEN Replacement ELSE response.content.v[i]
        ELSE /\ pc = "returned"
             /\ result.kind = "return"
             /\ result.value.t = "bytes"
             /\ result.value.v = response.content.v

\* C6 witness: a text Content-Type that also contains 'application/json' gave the parsed list
C6_Witness ==
    /\ pc = "returned"
    /\ response.status_code = 200
    /\ Contains(ReceivedContentType, <<"text/">>)
    /\ Contains(ReceivedContentType, <<"application/", "json">>)
    /\ response.content.v = <<"[", "7", "]">>
    /\ result.value.t = "list"
    /\ result.value.v = <<PyInt("7")>>

\* C7: every request carries 'Authorization: Bearer <key>', <key> being what
\* the active provider returns for the call's context when the call starts, and
\* 'Accept: application/json', unless extra_headers has a header of that name,
\* whose value is then sent; other extra headers are added to the two defaults.
C7_DefaultHeadersOverridable ==
    [][(pc # "sent" /\ pc' = "sent") =>
        LET headers == sent'[1].headers
            extra == IF call'.extra_headers = None THEN <<>> ELSE call'.extra_headers.v
            key == CASE _auth_handler.cls = "EnvAuthHandler" -> environ.GENEPATTERN_KEY
                     [] _auth_handler.cls = "SessionAuthHandler" ->
                            IF call'.context = "s1" THEN PyStr("key-s1") ELSE None
        IN  /\ DOMAIN headers = {"Authorization", "Accept"} \cup DOMAIN extra
            /\ \A h \in DOMAIN extra : headers[h] = extra[h]
            /\ ("Authorization" \notin DOMAIN extra) =>
                    headers["Authorization"] = <<"Bearer ", key.v>>
            /\ ("Accept" \notin DOMAIN extra) =>
                    headers["Accept"] = <<"application/", "json">>
      ]_vars

\* C7 witness: get_system_message sent with its own Accept and the session provider's key
C7_Witness ==
    /\ pc = "sent"
    /\ _auth_handler.cls = "SessionAuthHandler"
    /\ call.extra_headers # None
    /\ DOMAIN call.extra_headers.v = {"Accept"}
    /\ sent[1].headers["Accept"] = <<"text/", "html">>
    /\ sent[1].headers["Authorization"] = <<"Bearer ", "key-s1">>

\* A qualified name that resolves to an object, and the object it resolves to
Resolves(class_path) ==
    /\ Len(class_path) >= 2
    /\ SubSeq(class_path, 1, Len(class_path) - 1) \in Importable
    /\ class_path[Len(class_path)] \in
            DOMAIN ModuleAttrs(SubSeq(class_path, 1, Len(class_path) - 1))
Resolved(class_path) ==
    ModuleAttrs(SubSeq(class_path, 1, Len(class_path) - 1))[class_path[Len(class_path)]]
ImplementsProvider(obj) == obj.kind = "class" /\ obj.sub /\ ~obj.abstract
BadReference(class_path) ==
    ~Resolves(class_path) \/ ~ImplementsProvider(Resolved(class_path))

\* C8: set_auth_handler raises a configuration error (ImportError or TypeError),
\* and does not return normally, whenever the name does not resolve (no module
\* part, module not importable, attribute missing) or the resolved object does
\* not implement the provider capability.
C8_BadProviderRaises ==
    (setResult.class_path # <<>> /\ BadReference(setResult.class_path)) =>
        setResult.raised \in {"ImportError", "TypeError"}

\* C8 witness: installation was tried with a name whose attribute is missing
C8_Witness ==
    /\ setResult.class_path = <<"my_auth", "Missing">>
    /\ setResult.raised = "ImportError"
    /\ _auth_handler.cls = "EnvAuthHandler"

C10_OneConcreteProvider ==
    (phase # "boot" \/ pc # "idle") =>
        /\ _auth_handler.provider
        /\ _auth_handler.cls \in {"EnvAuthHandler", "SessionAuthHandler"}

\* C10 witness: a dispatch returned with a custom provider active after a later failed installation
C10_Witness ==
    /\ pc = "returned"
    /\ _auth_handler.cls = "SessionAuthHandler"
    /\ setResult.class_path = <<"my_auth", "PlainClass">>
    /\ setResult.raised = "TypeError"

\* C11: once a dispatch has occurred the active Credential Provider never
\* changes again.
C11_ProviderFixedAfterFirstDispatch ==
    [][(pc # "idle") => (_auth_handler' = _auth_handler)]_vars

\* C12: the default provider reads GENEPATTERN_KEY at every call: a dispatch
\* that follows an earlier one carries 'Bearer <value>' for the value the
\* environment holds when it starts, whatever the earlier request carried.
C12_DefaultProviderReadsEnvironmentEachCall ==
    [][(Done /\ pc' = "sent" /\ _auth_handler.cls = "EnvAuthHandler"
            /\ (call'.extra_headers = None
                    \/ "Authorization" \notin DOMAIN call'.extra_headers.v)) =>
            sent'[1].headers["Authorization"] = <<"Bearer ", environ.GENEPATTERN_KEY.v>>
      ]_vars

\* C12 witness: a request carries the key the environment was changed to after start-up
C12_Witness ==
    /\ pc = "sent"
    /\ phase = "serving"
    /\ _auth_handler.cls = "EnvAuthHandler"
    /\ environ.GENEPATTERN_KEY = PyStr("k2")
    /\ sent[1].headers["Authorization"] = <<"Bearer ", "k2">>

\* C13: with no API key configured, every dispatch through the default
\* provider is sent with 'Authorization: Bearer None', both when the
\* environment value is unset (dispatcher used directly) and when server.py ran
\* without --key; it never fails for lack of a credential.
C13_MissingKeySentAsBearerNone ==
    [][(pc # "sent" /\ pc' = "sent" /\ _auth_handler.cls = "EnvAuthHandler"
            /\ (environ.GENEPATTERN_KEY = None \/ environ.GENEPATTERN_KEY = PyStr("None"))
            /\ (call'.extra_headers = None
                    \/ "Authorization" \notin DOMAIN call'.extra_headers.v)) =>
            /\ Len(sent') = 1
            /\ result'.kind = "none"
            /\ sent'[1].headers["Authorization"] = <<"Bearer ", "None">>
      ]_vars

\* C13 witness: server.py ran without --key and a request went out with Bearer None
C13_Witness ==
    /\ pc = "sent"
    /\ phase = "serving"
    /\ _auth_handler.cls = "EnvAuthHandler"
    /\ environ.GENEPATTERN_KEY = PyStr("None")
    /\ sent[1].headers["Authorization"] = <<"Bearer ", "None">>

\* C14: when a dispatch is given more than one of the three bodies, every
\* body supplied is part of the request that goes out (or the call fails
\* before any request is issued).
C14_NoSuppliedBodyDropped ==
    (pc = "sent") =>
        /\ (call.json_data # None) => sent[1].body.json = call.json_data
        /\ (call.data # None) => sent[1].body.data = call.data
        /\ (call.files # None) => sent[1].body.files = call.files

----------------------------------------------------------------------------
(* Properties of the catalog entries *)

NoBody == [exc |-> "", json |-> None, data |-> None, files |-> None]

\* C15: get_job_status(job_id) issues one GET to
\* {base}/rest/v1/jobs/{job_id}/status.json with an empty query and no body, and
\* a JSON response to it is returned as the value the server encoded.
C15_JobStatusRequest ==
    (tool.name = "get_job_status") =>
        /\ Len(sent) = 1
        /\ sent[1].method = "GET"
        /\ sent[1].url = <<GENEPATTERN_URL, "/rest", "/v1/jobs/", tool.args.job_id.v,
                           "/status.json">>
        /\ DOMAIN EncodeQuery(sent[1].params) = {}
        /\ sent[1].body = NoBody
        /\ \A x \in ServerValues :
              (/\ Done
               /\ response.status_code = 200
               /\ Contains(ReceivedContentType, Json)
               /\ response.content = Bytes(JsonDumps(x)))
              => result = Return(x)

\* C15 witness: the status of job 12345 was requested and the encoded dict returned
C15_Witness ==
    /\ tool.name = "get_job_status"
    /\ tool.args.job_id = PyStr("12345")
    /\ pc = "returned"
    /\ Contains(ReceivedContentType, Json)
    /\ result = Return(PyDict([k \in {"status"} |-> PyStr("ok")]))

\* C16: upload_file(path, file_content, replace=True) issues one PUT to
\* {base}/rest/v1/data/upload/{path} whose query is replace=true in lowercase and
\* whose body is file_content.
C16_UploadReplaceLowercase ==
    (tool.name = "upload_file" /\ tool.args.replace = PyTrue) =>
        /\ Len(sent) = 1
        /\ sent[1].method = "PUT"
        /\ sent[1].url = <<GENEPATTERN_URL, "/rest", "/v1/data/upload/", tool.args.path.v>>
        /\ EncodeQuery(sent[1].params) = [k \in {"replace"} |-> "true"]
        /\ sent[1].body.data = tool.args.file_content

DocFinished == tool.name = "get_task_documentation" /\ doc.step \in {"returned", "raised"}
AssetOk == doc.response.status_code >= 200 /\ doc.response.status_code < 400
PdfType(mimetype) == Contains(mimetype.v, <<"pdf">>)
TextType(mimetype) ==
    /\ ~PdfType(mimetype)
    /\ Contains(mimetype.v, <<"text">>) \/ Contains(mimetype.v, <<"html">>)

\* C17: when the media type is a text or HTML type, the fetched bytes come back
\* as a string: their UTF-8 decoding when they are valid UTF-8, their Latin-1
\* decoding otherwise; the tool neither raises nor returns None.
C17_TextDecodedUtf8ThenLatin1 ==
    (DocFinished /\ AssetOk /\ TextType(doc.mimetype)) =>
        LET bytes == doc.response.content.v IN
        /\ doc.step = "returned"
        /\ doc.result.kind = "return"
        /\ doc.result.value.t = "text"
        /\ Utf8Decode(bytes).ok => doc.result.value.v = Utf8Decode(bytes).text
        /\ ~Utf8Decode(bytes).ok => doc.result.value.v = Latin1Decode(bytes)

\* C17 witness: bytes that are not UTF-8 came back decoded as Latin-1
C17_Witness ==
    /\ DocFinished
    /\ TextType(doc.mimetype)
    /\ doc.response.status_code = 200
    /\ doc.response.content.v = <<"h", "0xFF">>
    /\ doc.result = Return(Text(<<"h", "U+00FF">>))

\* C18: when the media type is a PDF type and the text of the pages can be
\* extracted, the result is the text of every page in page order with one
\* newline between consecutive pages: n pages give n-1 separators, none trailing.
C18_PdfPagesJoinedByNewline ==
    (DocFinished /\ AssetOk /\ PdfType(doc.mimetype)
        /\ PdfDocument(doc.response.content.v).ok) =>
        LET pages == PdfDocument(doc.response.content.v).pages
            n == Len(pages)
        IN  /\ doc.result.kind = "return"
            /\ doc.result.value.t = "text"
            /\ Len(doc.result.value.v) = IF n = 0 THEN 0 ELSE 2 * n - 1
            /\ \A i \in 1..n : doc.result.value.v[2 * i - 1] = pages[i]
            /\ \A i \in 1..(n - 1) : doc.result.value.v[2 * i] = "\n"

\* C18 witness: a two-page PDF came back as its two page texts around one newline
C18_Witness ==
    /\ DocFinished
    /\ PdfType(doc.mimetype)
    /\ doc.response.status_code = 200
    /\ doc.response.content.v = PdfFile(<<"page 1", "page 2">>)
    /\ doc.result = Return(Text(<<"page 1", "\n", "page 2">>))

HasAllModules(value) == value.t = "dict" /\ "all_modules" \in DOMAIN value.v
ListedModules ==
    IF HasAllModules(result.value) /\ result.value.v["all_modules"].t = "list"
    THEN result.value.v["all_modules"].v ELSE <<>>
Targets ==
    {i \in 1..Len(ListedModules) :
        /\ ListedModules[i].t = "dict"
        /\ \/ Get(ListedModules[i], "name") = doc.task
           \/ Get(ListedModules[i], "lsid") = doc.task}
LocalFailure ==
    \/ ~HasAllModules(result.value)
    \/ Targets = {}
    \/ \E i \in Targets : (\A j \in Targets : i <= j)
                             /\ "documentation" \notin DOMAIN ListedModules[i].v
    \/ doc.fetch # <<>> /\ ~AssetOk
    \/ AssetOk /\ PdfType(doc.mimetype) /\ ~PdfDocument(doc.response.content.v).ok
    \/ AssetOk /\ ~PdfType(doc.mimetype) /\ ~TextType(doc.mimetype)

\* C19: once the listing dispatch has returned, every local failure of
\* get_task_documentation (listing without 'all_modules', module not found,
\* module without documentation URL, asset fetch failed, PDF extraction failed,
\* unsupported media type) ends in the return of None; no error is raised.
C19_LocalFailuresAreAbsence ==
    (DocFinished /\ result.kind = "return" /\ LocalFailure) => doc.result = Return(None)

\* C20: an error status is surfaced as the remote-rejection error with the
\* status code, by the dispatcher and by both HTTP steps of
\* get_task_documentation; it is never returned as a value.
C20_EveryErrorStatusSurfaced ==
    /\ (ResponseReceived /\ response.status_code >= 400) =>
          /\ result.kind = "raise"
          /\ result.status_code = response.status_code
          /\ DocFinished => doc.result = result
    /\ (DocFinished /\ doc.response.status_code >= 400) =>
          /\ doc.step = "raised"
          /\ doc.result.kind = "raise"
          /\ doc.result.status_code = doc.response.status_code

----------------------------------------------------------------------------
(* Properties of the error kinds *)

RemoteRejection == result.kind = "raise" /\ result.type = "Exception" /\ result.prefix = "HTTP Error: "
TransportFailed ==
    result.kind = "raise" /\ result.type = "Exception" /\ result.prefix = "Request Exception: "

\* C21: a dispatch that raises raises one of two kinds: the remote rejection,
\* exactly when a response with an error status was received, and the transport
\* failure, exactly when no response was received; nothing else escapes.
C21_OnlyTwoErrorKinds ==
    Done =>
        /\ result.kind = "raise" => RemoteRejection \/ TransportFailed
        /\ RemoteRejection <=> response.status_code >= 400
        /\ TransportFailed <=> response.status_code = 0

----------------------------------------------------------------------------
(* Properties of the tool registry *)

----------------------------------------------------------------------------
(* Properties of the chunked-upload entries *)

UploadFamily ==
    {"start_server_multipart_upload", "upload_server_multipart_chunk",
     "get_server_multipart_status", "assemble_server_multipart_upload"}

\* The request an entry of the family has to issue for its arguments
ExpectedUpload ==
    LET a == tool.args
        base == <<GENEPATTERN_URL, "/rest">>
    IN  CASE tool.name = "start_server_multipart_upload" ->
                [method |-> "POST", url |-> base \o <<"/v1/upload/multipart/">>,
                 query |-> [k \in {"path", "parts", "fileSize"} |->
                              CASE k = "path" -> a.path.v [] k = "parts" -> a.num_parts.v
                                [] OTHER -> a.file_size.v],
                 data |-> None]
          [] tool.name = "upload_server_multipart_chunk" ->
                [method |-> "PUT", url |-> base \o <<"/v1/upload/multipart/">>,
                 query |-> [k \in {"token", "path", "index", "parts"} |->
                              CASE k = "token" -> a.token.v [] k = "path" -> a.path.v
                                [] k = "index" -> a.chunk_index.v [] OTHER -> a.total_parts.v],
                 data |-> a.chunk_data]
          [] tool.name = "get_server_multipart_status" ->
                [method |-> "GET", url |-> base \o <<"/v1/upload/multipart/">>,
                 query |-> [k \in {"token", "path", "parts"} |->
                              CASE k = "token" -> a.token.v [] k = "path" -> a.path.v
                                [] OTHER -> a.num_parts.v],
                 data |-> None]
          [] OTHER ->
                [method |-> "POST", url |-> base \o <<"/v1/upload/multipart/assemble/">>,
                 query |-> [k \in {"token", "path", "parts"} |->
                              CASE k = "token" -> a.token.v [] k = "path" -> a.path.v
                                [] OTHER -> a.num_parts.v],
                 data |-> None]

\* C22: whatever chunked-upload calls came before, an entry of the family issues
\* one request that carries the caller's token, index and parts values as given;
\* no call is refused locally, and the request is the last one on its way to
\* the server.
C22_UploadCallsForwarded ==
    (tool.name \in UploadFamily) =>
        /\ Len(sent) = 1
        /\ sent[1].method = ExpectedUpload.method
        /\ sent[1].url = ExpectedUpload.url
        /\ EncodeQuery(sent[1].params) = ExpectedUpload.query
        /\ sent[1].body.data = ExpectedUpload.data
        /\ remote # <<>>
        /\ remote[Len(remote)] = ExpectedUpload
        /\ pc = "raised" => response.status_code >= 400

\* C22 witness: a chunk for a token the server never issued was sent twice with
\* the same index and no start call before it
C22_Witness ==
    /\ tool.name = "upload_server_multipart_chunk"
    /\ tool.args.token = PyStr("unknown")
    /\ pc = "sent"
    /\ Len(remote) = 2
    /\ remote[1] = remote[2]
    /\ remote[2].method = "PUT"
    /\ remote[2].query["token"] = "unknown"

----------------------------------------------------------------------------
(* Properties of search_jobs *)

\* The query-parameter name of the remote API for an argument of search_jobs
RemoteName(n) ==
    CASE n = "user_id" -> "userId"
      [] n = "group_id" -> "groupId"
      [] n = "batch_id" -> "batchId"
      [] n = "page_size" -> "pageSize"
      [] n = "order_by" -> "orderBy"
      [] n = "order_files_by" -> "orderFilesBy"
      [] n = "include_children" -> "includeChildren"
      [] n = "include_input_params" -> "includeInputParams"
      [] n = "include_output_files" -> "includeOutputFiles"
      [] n = "include_permissions" -> "includePermissions"
      [] OTHER -> n

PythonOnlyNames ==
    {"user_id", "group_id", "batch_id", "page_size", "order_by", "order_files_by",
     "include_children", "include_input_params", "include_output_files",
     "include_permissions", "context"}

\* C24: search_jobs issues one GET /v1/jobs whose query keys are the remote
\* names of the arguments that are not None, each with the caller's value; no
\* Python name, no 'context' key and no None value is transmitted.
C24_SearchJobsQuery ==
    (tool.name = "search_jobs") =>
        LET a == tool.args
            given == {n \in DOMAIN a : a[n] # None}
            handed == sent[1].params.v
            query == EncodeQuery(sent[1].params)
        IN  /\ Len(sent) = 1
            /\ sent[1].method = "GET"
            /\ sent[1].url = <<GENEPATTERN_URL, "/rest", "/v1/jobs">>
            /\ DOMAIN query = {RemoteName(n) : n \in given}
            /\ DOMAIN handed = DOMAIN query
            /\ DOMAIN query \cap PythonOnlyNames = {}
            /\ \A n \in given : handed[RemoteName(n)] = a[n] /\ query[RemoteName(n)] = Str(a[n])

\* C24 witness: a search with user_id, page_size and an empty tag given
C24_Witness ==
    /\ tool.name = "search_jobs"
    /\ pc = "sent"
    /\ tool.args["user_id"] = PyStr("u1")
    /\ tool.args["tag"] = PyStr("")
    /\ tool.args["group_id"] = None
    /\ DOMAIN sent[1].params.v =
          {"userId", "pageSize", "tag", "page", "includeChildren", "includeInputParams",
           "includeOutputFiles", "includePermissions"}

----------------------------------------------------------------------------
(* Properties of the base URL *)

\* C26: the base URL is the one the environment holds when server.py has
\* written it (the flag, else the variable, else the default); it never changes
\* afterwards, and every dispatch goes to that URL, /rest and the entry's path,
\* whatever the environment holds by then.
C26_BaseUrlResolvedOnce ==
    [][/\ (phase = "boot" /\ phase' = "serving") =>
            /\ GENEPATTERN_URL' = Str(environ'.GENEPATTERN_URL)
            /\ GENEPATTERN_URL' \in
                  {LocalUrl, Str(GetEnv(environ, "GENEPATTERN_URL", PyStr(DefaultUrl)))}
       /\ (phase # "boot") => GENEPATTERN_URL' = GENEPATTERN_URL
       /\ (pc' = "sent") => sent'[1].url = <<GENEPATTERN_URL', "/rest">> \o call'.path]_vars

\* C26 witness: a request sent to the startup URL after the environment was changed
C26_Witness ==
    /\ phase = "serving"
    /\ pc = "sent"
    /\ environ.GENEPATTERN_URL = PyStr(LateUrl)
    /\ GENEPATTERN_URL = SlashUrl
    /\ sent[1].url[1] = SlashUrl

\* The scheme and host of a base URL
ServerHost(url) ==
    CASE url = DefaultUrl -> "https://cloud.genepattern.org"
      [] url = LocalUrl -> "http://localhost:8080"
      [] url = SlashUrl -> "https://gp.example.org"
      [] OTHER -> "https://late.example.org"

\* C30: for every base URL, the documentation asset is fetched from the base
\* URL without its /gp segment, followed by the documentation path of the
\* listing entry as it is.
C30_AssetFetchedFromServerHost ==
    (tool.name = "get_task_documentation" /\ doc.fetch # <<>>) =>
        \E i \in 1..Len(AllModules) :
            /\ Get(AllModules[i], "name") = doc.task \/ Get(AllModules[i], "lsid") = doc.task
            /\ doc.fetch[1].url = <<ServerHost(GENEPATTERN_URL)>> \o Get(AllModules[i], "documentation").v

\* The listing entries the finished dispatch returned that carry the requested
\* name or LSID and a documentation URL
DocumentedTargets ==
    IF /\ pc = "returned"
       /\ result.kind = "return"
       /\ result.value.t = "dict"
       /\ "all_modules" \in DOMAIN result.value.v
       /\ result.value.v["all_modules"].t = "list"
    THEN LET module_list == result.value.v["all_modules"].v
         IN  { i \in 1..Len(module_list) :
                 /\ module_list[i].t = "dict"
                 /\ \/ Get(module_list[i], "name") = doc.task
                    \/ Get(module_list[i], "lsid") = doc.task
                 /\ Truthy(Get(module_list[i], "documentation")) }
    ELSE {}

\* C27: get_task_documentation runs in a fixed order. While the listing
\* dispatch is in flight it carries the Authorization header and no asset has
\* been requested; an asset request exists only after the listing dispatch has
\* returned a listing in which the module is found with a documentation URL,
\* there is at most one, and it has no Authorization header.
C27_ListingThenOneBareFetch ==
    (tool.name = "get_task_documentation") =>
        /\ (doc.step = "listing") =>
                /\ pc = "sent"
                /\ "Authorization" \in DOMAIN sent[Len(sent)].headers
                /\ sent[Len(sent)].url = RequestUrl(GENEPATTERN_URL, <<"/v1/tasks/all.json">>)
                /\ doc.fetch = <<>>
        /\ (doc.fetch # <<>>) =>
                /\ Len(doc.fetch) = 1
                /\ doc.step \in {"fetching", "returned", "raised"}
                /\ DocumentedTargets # {}
                /\ "Authorization" \notin DOMAIN doc.fetch[1].headers
        /\ (doc.step \in {"returned", "raised"} /\ DocumentedTargets = {}) => doc.fetch = <<>>

C27_Witness ==
    /\ tool.name = "get_task_documentation"
    /\ doc.step = "fetching"
    /\ Len(doc.fetch) = 1
    /\ doc.fetch[1].headers = <<>>
    /\ "Authorization" \in DOMAIN sent[Len(sent)].headers
    /\ doc.task = PyStr("urn:lsid:2")

\* C28: a call of set_auth_handler that raises, at whichever step, leaves the
\* active Credential Provider and every other variable of the process as they
\* were before the call.
C28_FailedInstallChangesNothing ==
    [][(setResult' # setResult /\ setResult'.raised # "") =>
            /\ _auth_handler' = _auth_handler
            /\ UNCHANGED <<phase, environ, unknown, GENEPATTERN_URL, pc, call, sent, response,
                           error, result, tool, doc, tools, remote, threads>>]_vars

\* C28 witness: a custom provider is active after an installation that failed
\* in the constructor of the class
C28_Witness ==
    /\ _auth_handler.cls = "SessionAuthHandler"
    /\ setResult.class_path = <<"my_auth", "BrokenHandler">>
    /\ setResult.raised # ""

\* C23: in every interleaving of two invocations, a step of one leaves the
\* locals of the other and the shared provider, environment, base URL and
\* catalog as they were; the key of an invocation is the one the active
\* provider gives for its own context; its single request is built from its own
\* arguments and that key; its result is the handling of its own response to
\* its own request.
C23_ConcurrentCallsIndependent ==
    [][\A t \in Threads :
        (threads'[t] # threads[t]) =>
            /\ \A u \in Threads \ {t} : threads'[u] = threads[u]
            /\ UNCHANGED <<_auth_handler, environ, GENEPATTERN_URL, tools>>
            /\ (threads'[t].pc = "keyed") =>
                    /\ threads'[t].call.path = <<"/v1/jobs/", Str(ThreadJobs[t]), "/status.json">>
                    /\ threads'[t].api_key =
                            GetApiKey(_auth_handler, threads'[t].call.context, environ)
                    /\ threads'[t].sent = <<>>
            /\ (threads[t].pc = "keyed") =>
                    /\ Len(threads'[t].sent) = 1
                    /\ threads'[t].call = threads[t].call
                    /\ threads'[t].sent[1].method = threads[t].call.method
                    /\ threads'[t].sent[1].url =
                            <<GENEPATTERN_URL, "/rest">> \o threads[t].call.path
                    /\ threads'[t].sent[1].headers["Authorization"] =
                            <<"Bearer ", Str(threads[t].api_key)>>
            /\ (threads[t].pc = "sent") =>
                    /\ threads'[t].sent = threads[t].sent
                    /\ threads'[t].pc \in {"returned", "raised"}
                    /\ \/ threads'[t].result \in
                                HandleResponse(threads[t].sent[1], threads'[t].response)
                       \/ /\ threads'[t].response = NoResponse
                          /\ threads'[t].result = OnRequestException("Connection refused")]_vars

\* C23 witness: two invocations for different contexts and jobs overlapped; one
\* is in flight with its own key while the other has raised for its own URL
C23_Witness ==
    /\ threads[1].pc = "sent"
    /\ threads[2].pc = "raised"
    /\ threads[2].response.status_code = 404
    /\ threads[1].call.context = "s1"
    /\ threads[2].call.context = "s2"
    /\ threads[1].handler.cls = "SessionAuthHandler"
    /\ threads[2].handler.cls = "SessionAuthHandler"
    /\ threads[1].sent[1].headers["Authorization"] = <<"Bearer ", "key-s1">>
    /\ threads[2].sent[1].headers["Authorization"] = <<"Bearer ", "None">>
    /\ threads[1].sent[1].url # threads[2].sent[1].url

\* The keys a provider object can return for a context: the session's key, or
\* what GENEPATTERN_KEY holds (unset, set at start from the flag or the
\* environment, changed later)
KeysOf(handler, context) ==
    IF handler.cls = "SessionAuthHandler" THEN {SessionKey(context)}
    ELSE {None, PyStr("None"), PyStr("k0"), PyStr("k1"), PyStr("k2")}

\* C29: an invocation reads the active provider and asks it for the key once,
\* on entry and before any request exists; the provider object and the key it
\* holds stay the same until it ends; the Authorization header of its request
\* is that key, a key of the provider it read, and the request in flight does
\* not change, whatever happens to the active provider and the configured key.
C29_KeyReadOnceBeforeRequest ==
    [][\A t \in Threads :
        /\ (threads'[t].pc = "keyed" /\ threads'[t] # threads[t]) =>
                /\ threads'[t].handler = _auth_handler
                /\ threads'[t].api_key =
                        GetApiKey(_auth_handler, threads'[t].call.context, environ)
                /\ threads'[t].sent = <<>>
        /\ (threads[t].pc \in {"keyed", "sent"}) =>
                /\ threads'[t].handler = threads[t].handler
                /\ threads'[t].api_key = threads[t].api_key
        /\ (threads'[t].sent # <<>>) =>
                /\ threads'[t].sent[1].headers["Authorization"] =
                        <<"Bearer ", Str(threads'[t].api_key)>>
                /\ threads'[t].api_key \in
                        KeysOf(threads'[t].handler, threads'[t].call.context)
        /\ (threads[t].pc = "sent") => threads'[t].sent = threads[t].sent]_vars

\* C29 witness: a request in flight carries the key of the provider read on
\* entry after the provider was replaced and the configured key changed
C29_Witness ==
    /\ threads[1].pc = "sent"
    /\ threads[1].handler.cls = "EnvAuthHandler"
    /\ threads[1].sent[1].headers["Authorization"] = <<"Bearer ", "k0">>
    /\ _auth_handler.cls = "SessionAuthHandler"
    /\ environ.GENEPATTERN_KEY = PyStr("k2")
    /\ threads[1].call.context = "s1"

====
